---- MODULE Spec2Model ----
(***************************************************************************)
(* A model of the entity-aware naming and matching engine of               *)
(* bids-dataset-tools:                                                     *)
(*   - src/EventFile/bids_event_importer.py  (BIDSEventImporter)           *)
(*   - src/json_manager/bids_rename_manager.py (BIDSFileRenamer)           *)
(*                                                                         *)
(* Text is modelled character by character: a Python str is a sequence of  *)
(* one-character strings, a pathlib.Path is a sequence of such names.      *)
(* Python's None is the value None below.  A dict is a sequence of         *)
(* <<key, value>> pairs in insertion order.                                *)
(***************************************************************************)
EXTENDS Naturals, Sequences, FiniteSets, TLC

(***************************************************************************)
(* Bounds of the model.                                                    *)
(***************************************************************************)
\* how many reference scans a dataset under test holds at most
MaxBolds == 2
\* how many auxiliary files the source directory holds at most
MaxSources == 2
\* how many times a tool is invoked in a row on the same tree
MaxRuns == 2
\* how many files a dataset under rename holds at most
MaxFiles == 2

(***************************************************************************)
(* Python str and list primitives.                                         *)
(***************************************************************************)
None == <<"None">>

Digits == {"0", "1", "2", "3", "4", "5", "6", "7", "8", "9"}

\* code-point order of the characters the model's names are written in
Alphabet ==
  <<" ", "-", ".", "0", "1", "2", "3", "4", "5", "6", "7", "8", "9", "_",
    "a", "b", "c", "d", "e", "f", "g", "h", "i", "j", "k", "l", "m",
    "n", "o", "p", "q", "r", "s", "t", "u", "v", "w", "x", "y", "z">>

Ord(c) == CHOOSE i \in 1..Len(Alphabet) : Alphabet[i] = c

\* str < str
RECURSIVE StrLess(_, _)
StrLess(a, b) ==
  IF b = <<>> THEN FALSE
  ELSE IF a = <<>> THEN TRUE
  ELSE IF a[1] = b[1] THEN StrLess(Tail(a), Tail(b))
  ELSE Ord(a[1]) < Ord(b[1])

\* Path < Path: pathlib compares the tuples of parts
RECURSIVE PathLess(_, _)
PathLess(p, q) ==
  IF q = <<>> THEN FALSE
  ELSE IF p = <<>> THEN TRUE
  ELSE IF p[1] = q[1] THEN PathLess(Tail(p), Tail(q))
  ELSE StrLess(p[1], q[1])

\* sorted(set(paths))
RECURSIVE SortPaths(_)
SortPaths(S) ==
  IF S = {} THEN <<>>
  ELSE LET m == CHOOSE x \in S : \A y \in S \ {x} : PathLess(x, y)
       IN <<m>> \o SortPaths(S \ {m})

StartsWith(s, prefix) ==
  Len(s) >= Len(prefix) /\ SubSeq(s, 1, Len(prefix)) = prefix

EndsWith(s, suffix) ==
  Len(s) >= Len(suffix) /\ SubSeq(s, Len(s) - Len(suffix) + 1, Len(s)) = suffix

Contains(s, c) == \E i \in 1..Len(s) : s[i] = c

\* index of the first occurrence of the character c in s (c occurs in s)
FirstIndex(s, c) ==
  CHOOSE i \in 1..Len(s) : s[i] = c /\ \A j \in 1..(i - 1) : s[j] # c

\* s.split(c): every piece, the empty ones included
RECURSIVE Split(_, _)
Split(s, c) ==
  IF ~Contains(s, c) THEN <<s>>
  ELSE LET i == FirstIndex(s, c)
       IN <<SubSeq(s, 1, i - 1)>> \o Split(SubSeq(s, i + 1, Len(s)), c)

\* [p for p in s.split(c) if p]
Segments(s, c) == SelectSeq(Split(s, c), LAMBDA p : p # <<>>)

\* s.split(c, 1) of a string that contains c
KeyOf(part) == SubSeq(part, 1, FirstIndex(part, "-") - 1)
ValueOf(part) == SubSeq(part, FirstIndex(part, "-") + 1, Len(part))

\* new.join(s) around every character: s.replace("", new)
RECURSIVE Interleave(_, _)
Interleave(s, new) ==
  IF s = <<>> THEN new ELSE new \o <<s[1]>> \o Interleave(Tail(s), new)

\* s.replace(old, new): leftmost non-overlapping occurrences
RECURSIVE Replace(_, _, _)
Replace(s, old, new) ==
  IF old = <<>> THEN Interleave(s, new)
  ELSE IF Len(s) < Len(old) THEN s
  ELSE IF SubSeq(s, 1, Len(old)) = old
       THEN new \o Replace(SubSeq(s, Len(old) + 1, Len(s)), old, new)
  ELSE <<s[1]>> \o Replace(Tail(s), old, new)

\* delim.join(parts)
RECURSIVE Join(_, _)
Join(parts, delim) ==
  IF parts = <<>> THEN <<>>
  ELSE IF Len(parts) = 1 THEN parts[1]
  ELSE parts[1] \o delim \o Join(Tail(parts), delim)

\* s.lstrip(c)
RECURSIVE LStrip(_, _)
LStrip(s, c) == IF s # <<>> /\ s[1] = c THEN LStrip(Tail(s), c) ELSE s

\* s.rstrip(c)
RECURSIVE RStrip(_, _)
RStrip(s, c) ==
  IF s # <<>> /\ s[Len(s)] = c THEN RStrip(SubSeq(s, 1, Len(s) - 1), c) ELSE s

\* len("".join(Path(name).suffixes))
SuffixesLen(name) ==
  IF name = <<>> \/ name[Len(name)] = "." THEN 0
  ELSE LET stripped == LStrip(name, ".")
       IN IF Contains(stripped, ".")
          THEN Len(stripped) - (FirstIndex(stripped, ".") - 1)
          ELSE 0

\* "".join(Path(name).suffixes)
CollectSuffix(name) == SubSeq(name, Len(name) - SuffixesLen(name) + 1, Len(name))

\* the name with every suffix of Path(name).suffixes cut off its end
StripExtensions(name) == SubSeq(name, 1, Len(name) - SuffixesLen(name))

\* dict
DictHas(d, k) == \E i \in 1..Len(d) : d[i][1] = k

\* d.get(k)
DictGet(d, k) ==
  IF DictHas(d, k) THEN d[CHOOSE i \in 1..Len(d) : d[i][1] = k][2] ELSE None

\* d[k] = v
DictSet(d, k, v) ==
  IF DictHas(d, k)
  THEN [i \in 1..Len(d) |-> IF d[i][1] = k THEN <<k, v>> ELSE d[i]]
  ELSE Append(d, <<k, v>>)

\* d.pop(k, None)
DictPop(d, k) == SelectSeq(d, LAMBDA e : e[1] # k)

\* next((p for p in parts if p.startswith(prefix)), None)
FirstWithPrefix(parts, prefix) ==
  IF \E n \in 1..Len(parts) : StartsWith(parts[n], prefix)
  THEN parts[CHOOSE n \in 1..Len(parts) :
               /\ StartsWith(parts[n], prefix)
               /\ \A m \in 1..(n - 1) : ~StartsWith(parts[m], prefix)]
  ELSE None

(***************************************************************************)
(* Words of the naming convention.                                         *)
(***************************************************************************)
kSub == <<"s", "u", "b">>
kSes == <<"s", "e", "s">>
kTask == <<"t", "a", "s", "k">>
kRun == <<"r", "u", "n">>
kAcq == <<"a", "c", "q">>
SubDash == <<"s", "u", "b", "-">>
SesDash == <<"s", "e", "s", "-">>
tEvents == <<"e", "v", "e", "n", "t", "s">>
tPhysio == <<"p", "h", "y", "s", "i", "o">>
tBold == <<"b", "o", "l", "d">>
UBold == <<"_", "b", "o", "l", "d">>
ExtTsv == <<".", "t", "s", "v">>
ExtGz == <<".", "g", "z">>
ExtJson == <<".", "j", "s", "o", "n">>
ExtNiiGz == <<".", "n", "i", "i", ".", "g", "z">>
UBoldNiiGz == UBold \o ExtNiiGz
UEventsTsv == <<"_">> \o tEvents \o ExtTsv
UPhysioTsv == <<"_">> \o tPhysio \o ExtTsv
UPhysioJson == <<"_">> \o tPhysio \o ExtJson
dFunc == <<"f", "u", "n", "c">>
NA == <<"N", "/", "A">>
NoneLabel == <<"<", "n", "o", "n", "e", ">">>

(***************************************************************************)
(* BIDSEventImporter: the pure helpers.                                    *)
(***************************************************************************)
\* the default of the min_event_lines parameter
MinEventLines == 6

\* a path is the sequence of its parts below the root it is relative to
NameOf(path) == path[Len(path)]
ParentOf(path) == SubSeq(path, 1, Len(path) - 1)

\* the loop of _describe_file over parts[:-1]
RECURSIVE DescribeEntities(_, _)
DescribeEntities(parts, entities) ==
  IF parts = <<>> THEN entities
  ELSE LET part == parts[1]
           kept == IF Contains(part, "-") /\ KeyOf(part) # <<>> /\ ValueOf(part) # <<>>
                   THEN DictSet(entities, KeyOf(part), ValueOf(part))
                   ELSE entities
       IN DescribeEntities(Tail(parts), kept)

\* _describe_file: the FileInfo of an auxiliary file, or the ValueError it raises
DescribeFile(path) ==
  LET base_name == StripExtensions(NameOf(path))
      parts == Segments(base_name, "_")
  IN IF parts = <<>> THEN [ok |-> FALSE, error |-> "filename is empty"]
     ELSE LET suffix == parts[Len(parts)]
              entities == DescribeEntities(SubSeq(parts, 1, Len(parts) - 1), <<>>)
          IN IF suffix \notin {tEvents, tPhysio}
             THEN [ok |-> FALSE, error |-> "not an events or physio file"]
             ELSE IF ~DictHas(entities, kSub) \/ ~DictHas(entities, kTask)
             THEN [ok |-> FALSE, error |-> "missing required entities"]
             ELSE IF DictHas(entities, kSes) /\ DictGet(entities, kSes) = <<>>
             THEN [ok |-> FALSE, error |-> "session entity must have a value"]
             ELSE IF DictHas(entities, kRun) /\ DictGet(entities, kRun) = <<>>
             THEN [ok |-> FALSE, error |-> "run entity must have a value"]
             ELSE [ok |-> TRUE, path |-> path, kind |-> suffix, entities |-> entities,
                   base_without_suffix |->
                     Join(SubSeq(parts, 1, Len(parts) - 1), <<"_">>)]

\* the loop of _extract_entities_from_base
RECURSIVE ExtractEntities(_, _)
ExtractEntities(segments, entities) ==
  IF segments = <<>> THEN entities
  ELSE LET segment == segments[1]
           kept == IF Contains(segment, "-")
                   THEN DictSet(entities, KeyOf(segment), ValueOf(segment))
                   ELSE entities
       IN ExtractEntities(Tail(segments), kept)

\* _extract_entities_from_base
ExtractEntitiesFromBase(base_name) == ExtractEntities(Split(base_name, "_"), <<>>)

\* _remove_trailing_suffix
RemoveTrailingSuffix(base_name, suffix) ==
  IF EndsWith(base_name, suffix)
  THEN SubSeq(base_name, 1, Len(base_name) - Len(suffix))
  ELSE base_name

\* str.isdigit on the model's characters
IsDigit(value) == value # <<>> /\ \A i \in 1..Len(value) : value[i] \in Digits

\* str(int(value)) of a string of digits
RECURSIVE StrInt(_)
StrInt(value) ==
  IF Len(value) > 1 /\ value[1] = "0" THEN StrInt(Tail(value)) ELSE value

\* a _normalize_numeric that leaves every value as it is spelled
NormalizeNumericVerbatim(value) == value

\* _normalize_numeric
NormalizeNumeric(value) ==
  IF value = None THEN None
  ELSE IF IsDigit(value) THEN StrInt(value)
  ELSE value

\* a or b, for a str-or-None a
OrElse(a, b) == IF a = None \/ a = <<>> THEN b ELSE a

EmptyIndex == [by_full |-> [k \in {} |-> None], by_task |-> [k \in {} |-> <<>>]]

\* a by_full that keeps the entry it holds for the key
PutFullKeepingFirst(by_full, key, matched) ==
  [k \in DOMAIN by_full \cup {key} |-> IF k \in DOMAIN by_full THEN by_full[k] ELSE matched]

\* by_full[key] = matched
PutFull(by_full, key, matched) ==
  [k \in DOMAIN by_full \cup {key} |-> IF k = key THEN matched ELSE by_full[k]]

\* a by_task that takes the first reference file of a task key only
AppendTaskOnce(by_task, key, run, matched) ==
  [k \in DOMAIN by_task \cup {key} |->
     IF k \in DOMAIN by_task THEN by_task[k] ELSE <<<<run, matched>>>>]

\* by_task[key].append((run, matched)), by_task a defaultdict(list)
AppendTask(by_task, key, run, matched) ==
  [k \in DOMAIN by_task \cup {key} |->
     IF k = key
     THEN Append(IF key \in DOMAIN by_task THEN by_task[key] ELSE <<>>, <<run, matched>>)
     ELSE by_task[k]]

\* one iteration of the loop of _index_bold_files, for the scan relative
IndexOne(index, relative) ==
  LET parts == relative
      sub_part == FirstWithPrefix(parts, SubDash)
      ses_part == FirstWithPrefix(parts, SesDash)
      base_name == StripExtensions(NameOf(relative))
      entities == ExtractEntitiesFromBase(base_name)
      task == DictGet(entities, kTask)
      run == DictGet(entities, kRun)
      subject_value == Replace(sub_part, SubDash, <<>>)
      session_value ==
        NormalizeNumeric(OrElse(DictGet(entities, kSes),
                                IF ses_part # None THEN Replace(ses_part, SesDash, <<>>)
                                ELSE None))
      run_value == NormalizeNumeric(run)
      matched == [base |-> RemoveTrailingSuffix(base_name, UBold),
                  modality_dir |-> ParentOf(relative)]
  IN IF Len(parts) < 3 \/ sub_part = None \/ task = None \/ task = <<>>
     THEN index
     ELSE [by_full |-> PutFull(index.by_full,
                               <<subject_value, session_value, task, run_value>>, matched),
           by_task |-> AppendTask(index.by_task,
                                  <<subject_value, session_value, task>>, run_value, matched)]

\* _index_bold_files over the scans in the order rglob yields them
RECURSIVE IndexScans(_, _)
IndexScans(scans, index) ==
  IF scans = <<>> THEN index
  ELSE IndexScans(Tail(scans), IndexOne(index, scans[1]))

IndexBoldFiles(scans) == IndexScans(scans, EmptyIndex)

\* the RuntimeErrors of _match_to_bold, told apart by their messages
NoReferenceFound(subject, session, task) ==
  [ok |-> FALSE, kind |-> "NoReferenceFound", subject |-> subject,
   session |-> IF session = None \/ session = <<>> THEN NA ELSE session, task |-> task]

\* AmbiguousRun that lists only the candidates that carry a run label
AmbiguousRunLabelled(matches) ==
  [ok |-> FALSE, kind |-> "AmbiguousRun",
   runs |-> LET labelled == SelectSeq(matches, LAMBDA m : m[1] # None)
            IN [n \in 1..Len(labelled) |-> labelled[n][1]]]

AmbiguousRun(matches) ==
  [ok |-> FALSE, kind |-> "AmbiguousRun",
   runs |-> [i \in 1..Len(matches) |->
               IF matches[i][1] # None THEN matches[i][1] ELSE NoneLabel]]

NoRunMatch(run, subject, session, task) ==
  [ok |-> FALSE, kind |-> "NoRunMatch", run |-> run, subject |-> subject,
   session |-> IF session = None \/ session = <<>> THEN NA ELSE session, task |-> task]

Found(matched, warned) == [ok |-> TRUE, matched |-> matched, warned |-> warned]

\* _match_to_bold without the lookup of the full key: a run is only looked for
\* among the candidates of the task key
MatchToBoldFirstCandidate(info, full_map, task_map) ==
  LET subject == DictGet(info.entities, kSub)
      session == NormalizeNumeric(DictGet(info.entities, kSes))
      task == DictGet(info.entities, kTask)
      run == NormalizeNumeric(DictGet(info.entities, kRun))
      key_task == <<subject, session, task>>
      matches == IF key_task \in DOMAIN task_map THEN task_map[key_task] ELSE <<>>
      candidates == SelectSeq(matches, LAMBDA m : m[1] = run)
      fallback == SelectSeq(matches, LAMBDA m : m[1] = None)
  IN IF matches = <<>> THEN NoReferenceFound(subject, session, task)
     ELSE IF run = None
          THEN IF Len(matches) = 1 THEN Found(matches[1][2], FALSE)
               ELSE AmbiguousRun(matches)
     ELSE IF candidates # <<>> THEN Found(candidates[1][2], FALSE)
     ELSE IF Len(fallback) = 1 THEN Found(fallback[1][2], TRUE)
     ELSE NoRunMatch(run, subject, session, task)

\* _match_to_bold without the test for an empty candidate list
MatchToBoldUnchecked(info, full_map, task_map) ==
  LET subject == DictGet(info.entities, kSub)
      session == NormalizeNumeric(DictGet(info.entities, kSes))
      task == DictGet(info.entities, kTask)
      run == NormalizeNumeric(DictGet(info.entities, kRun))
      key_full == <<subject, session, task, run>>
      key_task == <<subject, session, task>>
      matches == IF key_task \in DOMAIN task_map THEN task_map[key_task] ELSE <<>>
      candidates == SelectSeq(matches, LAMBDA m : m[1] = run)
      fallback == SelectSeq(matches, LAMBDA m : m[1] = None)
  IN IF run # None /\ key_full \in DOMAIN full_map THEN Found(full_map[key_full], FALSE)
     ELSE IF run = None
          THEN IF Len(matches) = 1 THEN Found(matches[1][2], FALSE)
               ELSE AmbiguousRun(matches)
     ELSE IF candidates # <<>> THEN Found(candidates[1][2], FALSE)
     ELSE IF Len(fallback) = 1 THEN Found(fallback[1][2], TRUE)
     ELSE NoRunMatch(run, subject, session, task)

\* _match_to_bold falling back to the first run-less candidate however many
\* there are
MatchToBoldAnyFallback(info, full_map, task_map) ==
  LET subject == DictGet(info.entities, kSub)
      session == NormalizeNumeric(DictGet(info.entities, kSes))
      task == DictGet(info.entities, kTask)
      run == NormalizeNumeric(DictGet(info.entities, kRun))
      key_full == <<subject, session, task, run>>
      key_task == <<subject, session, task>>
      matches == IF key_task \in DOMAIN task_map THEN task_map[key_task] ELSE <<>>
      candidates == SelectSeq(matches, LAMBDA m : m[1] = run)
      fallback == SelectSeq(matches, LAMBDA m : m[1] = None)
  IN IF run # None /\ key_full \in DOMAIN full_map THEN Found(full_map[key_full], FALSE)
     ELSE IF matches = <<>> THEN NoReferenceFound(subject, session, task)
     ELSE IF run = None
          THEN IF Len(matches) = 1 THEN Found(matches[1][2], FALSE)
               ELSE AmbiguousRun(matches)
     ELSE IF candidates # <<>> THEN Found(candidates[1][2], FALSE)
     ELSE IF fallback # <<>> THEN Found(fallback[1][2], TRUE)
     ELSE NoRunMatch(run, subject, session, task)

\* _match_to_bold taking the first candidate of a file without a run label
\* however many there are
MatchToBoldFirstOfSeveral(info, full_map, task_map) ==
  LET subject == DictGet(info.entities, kSub)
      session == NormalizeNumeric(DictGet(info.entities, kSes))
      task == DictGet(info.entities, kTask)
      run == NormalizeNumeric(DictGet(info.entities, kRun))
      key_full == <<subject, session, task, run>>
      key_task == <<subject, session, task>>
      matches == IF key_task \in DOMAIN task_map THEN task_map[key_task] ELSE <<>>
      candidates == SelectSeq(matches, LAMBDA m : m[1] = run)
      fallback == SelectSeq(matches, LAMBDA m : m[1] = None)
  IN IF run # None /\ key_full \in DOMAIN full_map THEN Found(full_map[key_full], FALSE)
     ELSE IF matches = <<>> THEN NoReferenceFound(subject, session, task)
     ELSE IF run = None THEN Found(matches[1][2], FALSE)
     ELSE IF candidates # <<>> THEN Found(candidates[1][2], FALSE)
     ELSE IF Len(fallback) = 1 THEN Found(fallback[1][2], TRUE)
     ELSE NoRunMatch(run, subject, session, task)

\* _match_to_bold
MatchToBold(info, full_map, task_map) ==
  LET subject == DictGet(info.entities, kSub)
      session == NormalizeNumeric(DictGet(info.entities, kSes))
      task == DictGet(info.entities, kTask)
      run == NormalizeNumeric(DictGet(info.entities, kRun))
      key_full == <<subject, session, task, run>>
      key_task == <<subject, session, task>>
      matches == IF key_task \in DOMAIN task_map THEN task_map[key_task] ELSE <<>>
      candidates == SelectSeq(matches, LAMBDA m : m[1] = run)
      fallback == SelectSeq(matches, LAMBDA m : m[1] = None)
  IN IF run # None /\ key_full \in DOMAIN full_map THEN Found(full_map[key_full], FALSE)
     ELSE IF matches = <<>> THEN NoReferenceFound(subject, session, task)
     ELSE IF run = None
          THEN IF Len(matches) = 1 THEN Found(matches[1][2], FALSE)
               ELSE AmbiguousRun(matches)
     ELSE IF candidates # <<>> THEN Found(candidates[1][2], FALSE)
     ELSE IF Len(fallback) = 1 THEN Found(fallback[1][2], TRUE)
     ELSE NoRunMatch(run, subject, session, task)

(***************************************************************************)
(* BIDSFileRenamer: the pure helpers.                                      *)
(***************************************************************************)
CANONICAL_ENTITY_ORDER ==
  <<<<"s", "u", "b">>,
    <<"s", "e", "s">>,
    <<"t", "a", "s", "k">>,
    <<"a", "c", "q">>,
    <<"c", "e">>,
    <<"d", "i", "r">>,
    <<"r", "e", "c">>,
    <<"r", "u", "n">>,
    <<"e", "c", "h", "o">>,
    <<"f", "l", "i", "p">>,
    <<"i", "n", "v">>,
    <<"m", "t">>,
    <<"p", "a", "r", "t">>,
    <<"r", "e", "c", "o", "r", "d", "i", "n", "g">>,
    <<"s", "p", "a", "c", "e">>,
    <<"s", "p", "l", "i", "t">>,
    <<"d", "e", "s", "c">>,
    <<"l", "a", "b", "e", "l">>>>

Letters ==
  {"a", "b", "c", "d", "e", "f", "g", "h", "i", "j", "k", "l", "m",
   "n", "o", "p", "q", "r", "s", "t", "u", "v", "w", "x", "y", "z"}

\* ALLOWED_SUFFIX_PATTERN.fullmatch and ALLOWED_ENTITY_VALUE_PATTERN.fullmatch
AllowedPattern(s) ==
  s # <<>> /\ \A n \in 1..Len(s) : s[n] \in Letters \cup Digits

\* value.strip(), blanks being the only white space of the model
Strip(value) == RStrip(LStrip(value, " "), " ")

\* a ValueError and the value a helper returns
Raise(message) == [ok |-> FALSE, error |-> message]
Return(value) == [ok |-> TRUE, value |-> value]

\* the loop of _parse_bids_name over parts[:-1]
RECURSIVE ParseEntities(_, _)
ParseEntities(parts, entities) ==
  IF parts = <<>> THEN Return(entities)
  ELSE LET part == parts[1]
       IN IF ~Contains(part, "-") THEN Raise("segment is missing '-' separator")
          ELSE IF KeyOf(part) = <<>> \/ ValueOf(part) = <<>>
          THEN Raise("invalid BIDS entity expression")
          ELSE ParseEntities(Tail(parts), DictSet(entities, KeyOf(part), ValueOf(part)))

\* _parse_bids_name: the pair (entities, suffix), or the ValueError
ParseBidsName(base_name) ==
  LET parts == Segments(base_name, "_")
  IN IF parts = <<>> THEN Raise("Empty filename")
     ELSE LET parsed == ParseEntities(SubSeq(parts, 1, Len(parts) - 1), <<>>)
          IN IF ~parsed.ok THEN parsed
             ELSE IF ~DictHas(parsed.value, kSub)
             THEN Raise("filename is missing required 'sub' entity")
             ELSE Return([entities |-> parsed.value, suffix |-> parts[Len(parts)]])

\* _entity_order_index
EntityOrderIndex(entity) ==
  IF \E n \in 1..Len(CANONICAL_ENTITY_ORDER) : CANONICAL_ENTITY_ORDER[n] = entity
  THEN (CHOOSE n \in 1..Len(CANONICAL_ENTITY_ORDER) : CANONICAL_ENTITY_ORDER[n] = entity) - 1
  ELSE Len(CANONICAL_ENTITY_ORDER) + 1

\* the insertion loop of _insert_or_update_entity: the new key goes before the
\* first present key of a higher index, or to the end
InsertBefore(entities, entity, value) ==
  LET later == {n \in 1..Len(entities) :
                  EntityOrderIndex(entity) < EntityOrderIndex(entities[n][1])}
  IN IF later = {} THEN Append(entities, <<entity, value>>)
     ELSE LET at == CHOOSE n \in later : \A m \in later : n <= m
          IN SubSeq(entities, 1, at - 1) \o <<<<entity, value>>>>
               \o SubSeq(entities, at, Len(entities))

\* an _insert_or_update_entity that adds the value to the one the key has
InsertOrUpdateEntityAdding(entities, entity, value) ==
  LET sanitized_value == Strip(value)
  IN IF ~AllowedPattern(sanitized_value)
     THEN Raise("entity value contains invalid characters")
     ELSE IF DictHas(entities, entity)
     THEN Return(DictSet(entities, entity, DictGet(entities, entity) \o sanitized_value))
     ELSE Return(InsertBefore(entities, entity, sanitized_value))

\* _insert_or_update_entity
InsertOrUpdateEntity(entities, entity, value) ==
  LET sanitized_value == Strip(value)
  IN IF ~AllowedPattern(sanitized_value)
     THEN Raise("entity value contains invalid characters")
     ELSE IF DictHas(entities, entity)
     THEN Return(DictSet(entities, entity, sanitized_value))
     ELSE Return(InsertBefore(entities, entity, sanitized_value))

\* _build_bids_name
BuildBidsName(entities, suffix) ==
  IF ~AllowedPattern(suffix) THEN Raise("suffix contains invalid characters")
  ELSE Return(Join([n \in 1..Len(entities) |-> entities[n][1] \o <<"-">> \o entities[n][2]]
                     \o <<suffix>>, <<"_">>))

\* re.sub(r"_+", "_", base_name)
RECURSIVE CollapseUnderscores(_)
CollapseUnderscores(s) ==
  IF Len(s) < 2 THEN s
  ELSE IF s[1] = "_" /\ s[2] = "_" THEN CollapseUnderscores(Tail(s))
  ELSE <<s[1]>> \o CollapseUnderscores(Tail(s))

\* _normalize_base without the re.sub of line 235
NormalizeBaseTrimOnly(base_name) == RStrip(LStrip(base_name, "_"), "_")

\* _normalize_base
NormalizeBase(base_name) ==
  LET normalized == CollapseUnderscores(base_name)
  IN RStrip(LStrip(normalized, "_"), "_")

\* _build_bids_name of the entities the set_entities loop leaves
BuildEntities(set, suffix) ==
  IF ~set.ok THEN set ELSE BuildBidsName(set.value, suffix)

\* the loop of _transform_base_name over remove_substrings
RECURSIVE RemoveSubstrings(_, _)
RemoveSubstrings(updated, removals) ==
  IF removals = <<>> THEN updated
  ELSE RemoveSubstrings(Replace(updated, removals[1], <<>>), Tail(removals))

\* the loop of _transform_base_name over replace_pairs
RECURSIVE ReplacePairs(_, _)
ReplacePairs(updated, pairs) ==
  IF pairs = <<>> THEN updated
  ELSE ReplacePairs(Replace(updated, pairs[1][1], pairs[1][2]), Tail(pairs))

\* the loop over remove_entities without the test for the subject key
RECURSIVE RemoveEntitiesUnprotected(_, _)
RemoveEntitiesUnprotected(entities, removals) ==
  IF removals = <<>> THEN Return(entities)
  ELSE RemoveEntitiesUnprotected(DictPop(entities, removals[1]), Tail(removals))

\* the loop of _transform_base_name over remove_entities
RECURSIVE RemoveEntities(_, _)
RemoveEntities(entities, removals) ==
  IF removals = <<>> THEN Return(entities)
  ELSE IF removals[1] = kSub THEN Raise("Cannot remove mandatory 'sub' entity")
  ELSE RemoveEntities(DictPop(entities, removals[1]), Tail(removals))

\* the loop of _transform_base_name over set_entities.items()
RECURSIVE SetEntities(_, _)
SetEntities(entities, assignments) ==
  IF assignments = <<>> THEN Return(entities)
  ELSE IF assignments[1][2] = <<>> THEN Raise("entity requires a non-empty value")
  ELSE LET set == InsertOrUpdateEntity(entities, assignments[1][1], assignments[1][2])
       IN IF ~set.ok THEN set ELSE SetEntities(set.value, Tail(assignments))

\* lines 171-172 of _transform_base_name
NormalizeRebuilt(rebuilt) ==
  IF ~rebuilt.ok THEN rebuilt ELSE Return(NormalizeBase(rebuilt.value))

\* lines 165-170 of _transform_base_name
SetAndBuild(removed, suffix, cfg) ==
  IF ~removed.ok THEN removed
  ELSE NormalizeRebuilt(BuildEntities(SetEntities(removed.value, cfg.set_entities), suffix))

\* lines 160-172 of _transform_base_name, for the parsed name
TransformParsed(parsed, cfg) ==
  IF ~parsed.ok THEN parsed
  ELSE SetAndBuild(RemoveEntities(parsed.value.entities, cfg.remove_entities),
                   parsed.value.suffix, cfg)

\* _transform_base_name under the configuration cfg of the renamer
TransformBaseName(base_name, cfg) ==
  TransformParsed(ParseBidsName(ReplacePairs(RemoveSubstrings(base_name,
                                                              cfg.remove_substrings),
                                             cfg.replace_pairs)), cfg)

\* _validate_bids_name
ValidateBidsName(base_name) ==
  LET parsed == ParseBidsName(base_name)
  IN IF ~parsed.ok THEN Raise("BIDS validation failed")
     ELSE IF ~AllowedPattern(parsed.value.suffix)
     THEN Raise("suffix contains invalid characters")
     ELSE IF \E n \in 1..Len(parsed.value.entities) :
               ~AllowedPattern(parsed.value.entities[n][2])
     THEN Raise("entity value contains invalid characters")
     ELSE Return(TRUE)

\* _strip_all_suffixes
StripAllSuffixes(name) == SubSeq(name, 1, Len(name) - SuffixesLen(name))

(***************************************************************************)
(* The files the model is run on.  Paths are relative to the root they     *)
(* live under; the source directory of an import lies outside the dataset. *)
(***************************************************************************)
d01 == SubDash \o <<"0", "1">>
eSub01 == SubDash \o <<"0", "1">>
eSub02 == SubDash \o <<"0", "2">>
eTaskR == kTask \o <<"-", "r">>
eRun(v) == kRun \o <<"-">> \o v
eSes(v) == kSes \o <<"-">> \o v
Under(parts) == Join(parts, <<"_">>)

\* reference scans of the dataset
Bold1 == <<d01, dFunc, Under(<<eSub01, eTaskR, eRun(<<"1">>)>>) \o UBoldNiiGz>>
Bold01 == <<d01, dFunc, Under(<<eSub01, eTaskR, eRun(<<"0", "1">>)>>) \o UBoldNiiGz>>
BoldNoRun == <<d01, dFunc, Under(<<eSub01, eTaskR>>) \o UBoldNiiGz>>
Bold2 == <<d01, dFunc, Under(<<eSub01, eTaskR, eRun(<<"2">>)>>) \o UBoldNiiGz>>
BoldSes == <<d01, eSes(<<"1">>), dFunc, Under(<<eSub01, eTaskR>>) \o UBoldNiiGz>>
BoldAcq == <<d01, dFunc, Under(<<eSub01, eTaskR, kAcq \o <<"-", "x">>>>) \o UBoldNiiGz>>
BoldSes01 ==
  <<d01, eSes(<<"0", "1">>), dFunc,
    Under(<<eSub01, eSes(<<"0", "1">>), eTaskR>>) \o UBoldNiiGz>>
BoldUniverse == {Bold1, Bold01, BoldNoRun, Bold2, BoldSes, BoldSes01, BoldAcq}
\* the reference scans of the datasets the import flow is run on
FlowBolds == {Bold1, BoldNoRun}

\* auxiliary files of the source directory
SrcRun1 == <<Under(<<eSub01, eTaskR, eRun(<<"1">>)>>) \o UEventsTsv>>
SrcRun01 == <<Under(<<eSub01, eTaskR, eRun(<<"0", "1">>)>>) \o UEventsTsv>>
SrcNoRun == <<Under(<<eSub01, eTaskR>>) \o UEventsTsv>>
SrcShort == <<Under(<<eSub01, eTaskR, eRun(<<"2">>)>>) \o UEventsTsv>>
SrcOther == <<Under(<<eSub02, eTaskR>>) \o UEventsTsv>>
SrcNoTask == <<eSub01 \o UEventsTsv>>
SrcPhysio == <<Under(<<eSub01, eTaskR, eRun(<<"3">>)>>) \o UPhysioTsv \o ExtGz>>
SrcPhysioSes == <<Under(<<eSub01, eSes(<<"0", "1">>), eTaskR>>) \o UPhysioTsv>>
SourceUniverse ==
  {SrcRun1, SrcRun01, SrcNoRun, SrcShort, SrcOther, SrcNoTask, SrcPhysio, SrcPhysioSes}

\* the companion descriptor that lies beside SrcPhysio
SrcPhysioJson == <<Under(<<eSub01, eTaskR, eRun(<<"3">>)>>) \o UPhysioJson>>
Companions(S) == IF SrcPhysio \in S THEN {SrcPhysioJson} ELSE {}

\* how many lines a source file holds
LineCount(path) == IF path = SrcShort THEN 3 ELSE 10

\* files that may lie in the dataset before the import
OldEvents == <<d01, dFunc, Under(<<eSub01, eTaskR, eRun(<<"1">>)>>) \o UEventsTsv>>
OldPhysioJson == <<d01, dFunc, Under(<<eSub01, eTaskR>>) \o UPhysioJson>>
ExistingUniverse == {OldEvents, OldPhysioJson}

\* files of the datasets the renamer is run on
BoldAcqJson == <<d01, dFunc, Under(<<eSub01, eTaskR, kAcq \o <<"-", "x">>>>) \o UBold \o ExtJson>>
BoldDash == <<d01, dFunc, Under(<<eSub01, eTaskR \o <<"-", "x">>>>) \o UBoldNiiGz>>
Readme == <<<<"r", "e", "a", "d", "m", "e">>>>
RenameUniverse ==
  {Bold1, Bold01, Bold2, BoldNoRun, BoldAcq, BoldAcqJson, BoldDash, Readme}

DatasetContent(path) == [origin |-> "dataset", path |-> path]
SourceContent(path) == [origin |-> "source", path |-> path]

\* every directory above a path
Ancestors(path) == {SubSeq(path, 1, n) : n \in 1..(Len(path) - 1)}

\* the sequences without repetition of at most n elements of S
RECURSIVE Arrangements(_, _)
Arrangements(S, n) ==
  IF n = 0 THEN {<<>>}
  ELSE LET shorter == Arrangements(S, n - 1)
       IN shorter \cup
          {Append(q, x) : <<q, x>> \in
             {<<q, x>> \in shorter \X S : \A i \in 1..Len(q) : q[i] # x}}

Range(seq) == {seq[i] : i \in 1..Len(seq)}

(***************************************************************************)
(* BIDSEventImporter: paths and the collection of the source files.        *)
(***************************************************************************)
\* Path(name).suffix
LastSuffix(name) ==
  LET dots == {n \in 1..Len(name) : name[n] = "."}
  IN IF dots = {} THEN <<>>
     ELSE LET last == CHOOSE n \in dots : \A m \in dots : m <= n
          IN IF 1 < last /\ last < Len(name) THEN SubSeq(name, last, Len(name)) ELSE <<>>

\* Path.with_suffix, on the name
WithSuffix(name, suffix) ==
  SubSeq(name, 1, Len(name) - Len(LastSuffix(name))) \o suffix

\* "{int(session):02d}" of a string of digits
TwoDigits(session) ==
  IF Len(StrInt(session)) < 2 THEN <<"0">> \o StrInt(session) ELSE StrInt(session)

\* _session_variants
SessionVariants(session) ==
  {session} \cup (IF IsDigit(session) THEN {TwoDigits(session)} ELSE {})

\* a filter that is given (neither None nor empty)
Given(filter) == filter # None /\ filter # <<>>

\* what rglob("*_events.tsv"), ... of _collect_source_files select
IsCandidate(path, include_events, include_physio) ==
  \/ /\ include_events
     /\ \/ EndsWith(NameOf(path), UEventsTsv)
        \/ EndsWith(NameOf(path), UEventsTsv \o ExtGz)
  \/ /\ include_physio
     /\ \/ EndsWith(NameOf(path), UPhysioTsv)
        \/ EndsWith(NameOf(path), UPhysioTsv \o ExtGz)

\* the filters of _collect_source_files on a described file
InfoPassesFilters(info, session_filter, subject_filter) ==
  /\ info.ok
  /\ Given(session_filter) =>
       DictGet(info.entities, kSes) \in SessionVariants(session_filter)
  /\ Given(subject_filter) => DictGet(info.entities, kSub) = subject_filter

\* the test of the filter loop of _collect_source_files: a file _describe_file
\* raises on is dropped
PassesFilters(path, session_filter, subject_filter) ==
  InfoPassesFilters(DescribeFile(path), session_filter, subject_filter)

\* _collect_source_files (pattern=None)
CollectSourceFiles(source, include_events, include_physio, session_filter, subject_filter) ==
  LET unique_files ==
        SortPaths({f \in source : IsCandidate(f, include_events, include_physio)})
  IN SelectSeq(unique_files, LAMBDA f : PassesFilters(f, session_filter, subject_filter))

\* _event_file_has_enough_lines
EventFileHasEnoughLines(path, min_event_lines) == LineCount(path) >= min_event_lines

\* the target file name import_files gives a matched source file
NewFilename(source_file, kind, base) ==
  LET plain == IF kind = tEvents THEN base \o UEventsTsv ELSE base \o UPhysioTsv
  IN IF LastSuffix(NameOf(source_file)) = ExtGz
        \/ EndsWith(NameOf(source_file), ExtTsv \o ExtGz)
     THEN plain \o ExtGz
     ELSE plain

\* the json_source of _copy_physio_json
JsonSource(physio_file, base_name) ==
  LET name == NameOf(physio_file)
      ungz == IF LastSuffix(name) = ExtGz THEN WithSuffix(name, <<>>) ELSE name
  IN IF LastSuffix(ungz) = ExtTsv
     THEN Append(ParentOf(physio_file), WithSuffix(ungz, ExtJson))
     ELSE Append(ParentOf(physio_file), base_name \o UPhysioJson)

\* a copy that leaves a file already at the target as it is
CopyIntoKeepingStale(t, source_file, target) ==
  [p \in DOMAIN t \cup {target} |->
     IF p = target /\ target \notin DOMAIN t THEN SourceContent(source_file) ELSE t[p]]

\* the tree after shutil.copy2(source, target), a stale target unlinked first
CopyInto(t, source_file, target) ==
  [p \in DOMAIN t \cup {target} |->
     IF p = target THEN SourceContent(source_file) ELSE t[p]]

\* _copy_physio_json without the test of self.dry_run
CopyPhysioJsonLive(t, source, physio_file, target_dir, base_name, dry, overwr) ==
  LET json_source == JsonSource(physio_file, base_name)
      target_json == Append(target_dir, base_name \o UPhysioJson)
  IN IF json_source \notin source THEN t
     ELSE IF target_json \in DOMAIN t /\ ~overwr THEN t
     ELSE CopyInto(t, json_source, target_json)

\* _copy_physio_json: the tree it leaves
CopyPhysioJson(t, source, physio_file, target_dir, base_name, dry, overwr) ==
  LET json_source == JsonSource(physio_file, base_name)
      target_json == Append(target_dir, base_name \o UPhysioJson)
  IN IF json_source \notin source THEN t
     ELSE IF target_json \in DOMAIN t /\ ~overwr THEN t
     ELSE IF dry THEN t
     ELSE CopyInto(t, json_source, target_json)

(***************************************************************************)
(* BIDSFileRenamer: groups, the plan, the collision check and the moves.   *)
(***************************************************************************)
\* self.backup_base_dirname
BackupBaseDirname == <<<<"s", "o", "u", "r", "c", "e", "d", "a", "t", "a">>, <<"b", "a", "c", "k", "u", "p">>>>

\* an _is_in_backup_area that finds no path in the backup area
IsInBackupAreaNever(rel) == FALSE

\* _is_in_backup_area, for a path relative to the root
IsInBackupArea(rel) ==
  SubSeq(rel, 1, IF Len(rel) < Len(BackupBaseDirname) THEN Len(rel)
                 ELSE Len(BackupBaseDirname)) = BackupBaseDirname

\* fnmatch.fnmatch(name, pat) for a pattern of literal characters and "*"
RECURSIVE Fnmatch(_, _)
Fnmatch(name, pat) ==
  IF pat = <<>> THEN name = <<>>
  ELSE IF Head(pat) = "*"
  THEN \E k \in 0..Len(name) : Fnmatch(SubSeq(name, k + 1, Len(name)), Tail(pat))
  ELSE name # <<>> /\ Head(name) = Head(pat) /\ Fnmatch(Tail(name), Tail(pat))

\* _passes_filters when neither --ses nor --modality is given
RenamerPassesFilters(rel_path, filename_pattern) ==
  filename_pattern = None \/ Fnmatch(NameOf(rel_path), filename_pattern)

\* the loop of _find_file_groups over the files rglob yields, in this order,
\* for the pattern "*"
RECURSIVE FindFileGroups(_, _, _)
FindFileGroups(listing, filename_pattern, groups) ==
  IF listing = <<>> THEN groups
  ELSE LET rel_path == listing[1]
           key == <<ParentOf(rel_path), StripAllSuffixes(NameOf(rel_path))>>
           members == IF DictHas(groups, key) THEN DictGet(groups, key) ELSE <<>>
       IN IF IsInBackupArea(rel_path) \/ ~RenamerPassesFilters(rel_path, filename_pattern)
          THEN FindFileGroups(Tail(listing), filename_pattern, groups)
          ELSE FindFileGroups(Tail(listing), filename_pattern,
                              DictSet(groups, key, Append(members, rel_path)))

\* a rename that plans the first file of a group only
GroupMovesFirstOnly(parent, files, new_base_name) ==
  <<<<files[1], Append(parent, new_base_name \o CollectSuffix(NameOf(files[1])))>>>>

\* the moves rename plans for the files of one group under new_base_name
GroupMoves(parent, files, new_base_name) ==
  [n \in 1..Len(files) |->
     <<files[n], Append(parent, new_base_name \o CollectSuffix(NameOf(files[n])))>>]

\* a rename that records a group whose new name fails _validate_bids_name in
\* error_files and goes on
PlanGroupRecording(group, new_base_name, plan) ==
  IF ~new_base_name.ok
  THEN [plan EXCEPT !.error_files = Append(@, Append(group[1][1], group[1][2]))]
  ELSE IF new_base_name.value = group[1][2] THEN plan
  ELSE IF ~ValidateBidsName(new_base_name.value).ok
  THEN [plan EXCEPT !.error_files = Append(@, Append(group[1][1], group[1][2]))]
  ELSE [plan EXCEPT !.planned_moves =
          @ \o GroupMoves(group[1][1], group[2], new_base_name.value)]

\* lines 67-82 of rename for one group: what the plan becomes, or the
\* plan with its field raised set when line 77 raises
PlanGroup(group, new_base_name, plan) ==
  IF ~new_base_name.ok
  THEN [plan EXCEPT !.error_files = Append(@, Append(group[1][1], group[1][2]))]
  ELSE IF new_base_name.value = group[1][2] THEN plan
  ELSE IF ~ValidateBidsName(new_base_name.value).ok
  THEN [plan EXCEPT !.raised = "ValueError"]
  ELSE [plan EXCEPT !.planned_moves =
          @ \o GroupMoves(group[1][1], group[2], new_base_name.value)]

\* the loop of rename over the groups, lines 66-82, which line 77 leaves
\* when it raises
RECURSIVE PlanGroups(_, _, _)
PlanGroups(groups, cfg, plan) ==
  IF groups = <<>> \/ plan.raised # "None" THEN plan
  ELSE PlanGroups(Tail(groups), cfg,
                  PlanGroup(groups[1], TransformBaseName(groups[1][1][2], cfg), plan))

\* a first loop of _ensure_no_collisions that never raises
MultipleFilesWantNever(planned_moves, targets) == FALSE

\* the first loop of _ensure_no_collisions: TRUE when it raises
RECURSIVE MultipleFilesWant(_, _)
MultipleFilesWant(planned_moves, targets) ==
  IF planned_moves = <<>> THEN FALSE
  ELSE LET old_rel == planned_moves[1][1]
           new_rel == planned_moves[1][2]
       IN IF old_rel = new_rel THEN MultipleFilesWant(Tail(planned_moves), targets)
          ELSE IF DictHas(targets, new_rel) /\ DictGet(targets, new_rel) # old_rel THEN TRUE
          ELSE MultipleFilesWant(Tail(planned_moves), DictSet(targets, new_rel, old_rel))

\* the second loop of _ensure_no_collisions: TRUE when it raises; Path.exists
\* holds of files and of directories
TargetAlreadyExists(t, d, planned_moves) ==
  \E n \in 1..Len(planned_moves) :
    LET old_rel == planned_moves[n][1]
        new_rel == planned_moves[n][2]
    IN old_rel # new_rel /\ (new_rel \in DOMAIN t \/ new_rel \in d) /\ new_rel # old_rel

\* _ensure_no_collisions without its second loop
EnsureNoCollisionsDistinctOnly(t, d, planned_moves) ==
  IF MultipleFilesWant(planned_moves, <<>>) THEN "Multiple files want to rename to"
  ELSE "None"

\* _ensure_no_collisions: the RuntimeError it raises, or None
EnsureNoCollisions(t, d, planned_moves) ==
  IF MultipleFilesWant(planned_moves, <<>>) THEN "Multiple files want to rename to"
  ELSE IF TargetAlreadyExists(t, d, planned_moves) THEN "Target already exists"
  ELSE "None"

\* where _backup_file copies the file at the relative path
BackupPath(relative) == BackupBaseDirname \o relative

\* a _backup_file that copies nothing
BackupFileSkipped(t, relative) == t

\* the tree after shutil.copy2(original_path, backup_path)
BackupFile(t, relative) ==
  [p \in DOMAIN t \cup {BackupPath(relative)} |->
     IF p = BackupPath(relative) THEN t[relative] ELSE t[p]]

\* the tree after old_path.rename(new_path)
MoveFile(t, old_rel, new_rel) ==
  [p \in (DOMAIN t \ {old_rel}) \cup {new_rel} |->
     IF p = new_rel THEN t[old_rel] ELSE t[p]]

(***************************************************************************)
(* State.                                                                  *)
(***************************************************************************)
VARIABLES
  tool,           \* which command line tool the behaviour is about
  pc,             \* "idle": not yet invoked, "loop": inside the per-file loop,
                  \* "done": the call has returned, "raised": it raised
  runs,           \* invocations so far
  dry_run,        \* self.dry_run of the current invocation
  tree,           \* the dataset: path |-> content of every file under the root
  dirs,           \* the directories of the dataset
  startTree,      \* tree and dirs when the current invocation started
  startDirs,
  prev,           \* <<>> or the one-element list of the previous invocation's outcome
  sources,        \* import: the files of the source directory
  scan,           \* import: the reference scans in the order rglob yields them
  overwrite,      \* import: self.overwrite
  opts,           \* import: include_events, include_physio and the two filters
  files,          \* import: the candidate files collected at the start
  i,              \* import and rename: position in the list being worked through
  copied,         \* import: ImportResult.copied
  skipped,        \* import: ImportResult.skipped
  errors,         \* import: ImportResult.errors
  bold_map,       \* import: by_full of _index_bold_files
  bold_task_map,  \* import: by_task of _index_bold_files
  config,         \* rename: remove_substrings, replace_pairs, remove_entities
                  \* and set_entities of the renamer
  backup_enabled, \* rename: self.backup_enabled
  planned_moves,  \* rename: the (source, destination) pairs of the plan
  processed_files,\* rename: self.processed_files
  error_files,    \* rename: self.error_files
  raised,         \* import and rename: "None" or the exception the call raised
  matched,        \* resolver: None, or what _match_to_bold returned or raised
  base_name,      \* codec: the base name handed to _parse_bids_name, or None
  parsed,         \* codec: None, or what _parse_bids_name returned or raised
  rebuilt,        \* codec: None, or what _build_bids_name returned or raised
  described       \* codec: None, or what _describe_file returned or raised

importVars ==
  <<sources, scan, overwrite, opts, files, copied, skipped, errors, bold_map,
    bold_task_map, matched>>

renameVars ==
  <<config, backup_enabled, planned_moves, processed_files, error_files>>

codecVars == <<base_name, parsed, rebuilt, described>>

vars ==
  <<tool, pc, runs, dry_run, tree, dirs, startTree, startDirs, prev, i, raised,
    importVars, renameVars, codecVars>>

(***************************************************************************)
(* BIDSEventImporter.import_files                                          *)
(***************************************************************************)
\* the datasets and source directories the importer is run on
ScanOrders == Arrangements(BoldUniverse, MaxBolds)
FlowScans == Arrangements(FlowBolds, MaxBolds)
SourceSets ==
  {chosen \cup Companions(chosen) :
     chosen \in {S \in SUBSET SourceUniverse : Cardinality(S) <= MaxSources}}

\* the ways the importer is invoked: what to include and the two filters
ImportOptions ==
  {[include_events |-> TRUE, include_physio |-> TRUE,
    session_filter |-> None, subject_filter |-> None],
   [include_events |-> FALSE, include_physio |-> TRUE,
    session_filter |-> <<"1">>, subject_filter |-> <<"0", "1">>]}

\* lines 100-107 of import_files: the target of a matched source file
TargetOf(source_file, info, m) ==
  IF ~m.ok THEN [class |-> "error", reason |-> m]
  ELSE [class |-> "target", kind |-> info.kind, base |-> m.matched.base,
        target_dir |-> m.matched.modality_dir,
        target_path |-> Append(m.matched.modality_dir,
                               NewFilename(source_file, info.kind, m.matched.base))]

\* lines 77-98 of import_files for a described source file
ResolveInfo(source_file, info, full_map, task_map, min_event_lines) ==
  IF ~info.ok THEN [class |-> "error", reason |-> info.error]
  ELSE IF info.kind = tEvents /\ ~EventFileHasEnoughLines(source_file, min_event_lines)
  THEN [class |-> "skipped", reason |-> "events file too short"]
  ELSE TargetOf(source_file, info, MatchToBold(info, full_map, task_map))

\* what the loop body of import_files decides for source_file before it copies:
\* the error or skip it records, or the target it is about to write
Resolve(source_file, full_map, task_map, min_event_lines) ==
  ResolveInfo(source_file, DescribeFile(source_file), full_map, task_map,
              min_event_lines)

\* the configuration of a renamer nothing was asked of, and the --file
\* argument of a command line that gives none
NoConfig ==
  [remove_substrings |-> <<>>, replace_pairs |-> <<>>, remove_entities |-> <<>>,
   set_entities |-> <<>>, filename_pattern |-> None]

ImportInit ==
  /\ tool = "import"
  /\ scan \in FlowScans
  /\ sources \in SourceSets
  /\ \E old \in {{}, ExistingUniverse} :
       /\ tree = [p \in Range(scan) \cup old |-> DatasetContent(p)]
       /\ dirs = UNION {Ancestors(p) : p \in Range(scan) \cup old}
  /\ overwrite \in BOOLEAN
  /\ opts \in ImportOptions
  /\ config = NoConfig
  /\ backup_enabled = FALSE

\* the outcome of an invocation that has ended
Outcome ==
  [tool |-> tool, dry_run |-> dry_run, startTree |-> startTree, raised |-> raised,
   copied |-> copied, skipped |-> skipped, errors |-> errors,
   planned_moves |-> planned_moves, processed_files |-> processed_files,
   error_files |-> error_files]

\* import_files is called: lines 58-74, up to the per-file loop
ImportStart(d) ==
  /\ tool = "import"
  /\ pc \in {"idle", "done"}
  /\ runs < MaxRuns
  /\ runs' = runs + 1
  /\ dry_run' = d
  /\ prev' = IF pc = "done" THEN <<Outcome>> ELSE prev
  /\ startTree' = tree
  /\ startDirs' = dirs
  /\ \E collected \in {CollectSourceFiles(sources, opts.include_events,
                                          opts.include_physio, opts.session_filter,
                                          opts.subject_filter)},
        index \in {IndexBoldFiles(scan)} :
        /\ files' = collected
        /\ IF collected = <<>>
           THEN /\ pc' = "done"
                /\ bold_map' = EmptyIndex.by_full
                /\ bold_task_map' = EmptyIndex.by_task
           ELSE /\ pc' = "loop"
                /\ bold_map' = index.by_full
                /\ bold_task_map' = index.by_task
  /\ i' = 1
  /\ copied' = <<>> /\ skipped' = <<>> /\ errors' = <<>>
  /\ UNCHANGED <<tool, tree, dirs, raised, sources, scan, overwrite, opts, matched,
                 renameVars, codecVars>>

\* the per-file loop of import_files without the try of lines 92-98: the
\* error of _match_to_bold or _describe_file leaves import_files
ImportFileUncaught ==
  /\ tool = "import"
  /\ pc = "loop"
  /\ \E source_file \in {files[i]} :
     \E r \in {Resolve(source_file, bold_map, bold_task_map, MinEventLines)} :
        IF r.class = "error"
        THEN UNCHANGED <<errors, copied, skipped, tree, dirs>>
        ELSE IF r.class = "skipped"
        THEN /\ skipped' = Append(skipped, <<source_file, r.reason>>)
             /\ UNCHANGED <<copied, errors, tree, dirs>>
        ELSE /\ dirs' = dirs \cup {r.target_dir} \cup Ancestors(r.target_dir)
             /\ IF r.target_path \in DOMAIN tree /\ ~overwrite
                THEN /\ skipped' = Append(skipped, <<source_file, "already exists">>)
                     /\ UNCHANGED <<copied, errors, tree>>
                ELSE LET written == IF dry_run THEN tree
                                    ELSE CopyInto(tree, source_file, r.target_path)
                     IN /\ copied' = Append(copied, r.target_path)
                        /\ tree' = IF r.kind = tPhysio
                                   THEN CopyPhysioJson(written, sources, source_file,
                                                       r.target_dir, r.base, dry_run,
                                                       overwrite)
                                   ELSE written
                        /\ UNCHANGED <<skipped, errors>>
  /\ i' = i + 1
  /\ \E r \in {Resolve(files[i], bold_map, bold_task_map, MinEventLines)} :
       /\ raised' = IF r.class = "error" THEN "RuntimeError" ELSE raised
       /\ pc' = IF r.class = "error" THEN "raised"
                ELSE IF i = Len(files) THEN "done" ELSE "loop"
  /\ UNCHANGED <<tool, runs, dry_run, startTree, startDirs, prev, sources, scan,
                 overwrite, opts, files, bold_map, bold_task_map, matched, renameVars, codecVars>>

\* one iteration of the per-file loop of import_files, lines 76-126; the
\* return of line 128 follows the last one
ImportFile ==
  /\ tool = "import"
  /\ pc = "loop"
  /\ \E source_file \in {files[i]} :
     \E r \in {Resolve(source_file, bold_map, bold_task_map, MinEventLines)} :
        IF r.class = "error"
        THEN /\ errors' = Append(errors, <<source_file, r.reason>>)
             /\ UNCHANGED <<copied, skipped, tree, dirs>>
        ELSE IF r.class = "skipped"
        THEN /\ skipped' = Append(skipped, <<source_file, r.reason>>)
             /\ UNCHANGED <<copied, errors, tree, dirs>>
        ELSE /\ dirs' = dirs \cup {r.target_dir} \cup Ancestors(r.target_dir)
             /\ IF r.target_path \in DOMAIN tree /\ ~overwrite
                THEN /\ skipped' = Append(skipped, <<source_file, "already exists">>)
                     /\ UNCHANGED <<copied, errors, tree>>
                ELSE LET written == IF dry_run THEN tree
                                    ELSE CopyInto(tree, source_file, r.target_path)
                     IN /\ copied' = Append(copied, r.target_path)
                        /\ tree' = IF r.kind = tPhysio
                                   THEN CopyPhysioJson(written, sources, source_file,
                                                       r.target_dir, r.base, dry_run,
                                                       overwrite)
                                   ELSE written
                        /\ UNCHANGED <<skipped, errors>>
  /\ i' = i + 1
  /\ pc' = IF i = Len(files) THEN "done" ELSE "loop"
  /\ UNCHANGED <<tool, runs, dry_run, startTree, startDirs, prev, raised, sources, scan,
                 overwrite, opts, files, bold_map, bold_task_map, matched, renameVars, codecVars>>

(***************************************************************************)
(* BIDSFileRenamer.rename                                                  *)
(***************************************************************************)
\* what the command line asks of the renamer
RenameConfigs ==
  {[NoConfig EXCEPT !.remove_entities = <<kAcq>>],
   [NoConfig EXCEPT !.remove_entities = <<kAcq, kSub>>],
   [NoConfig EXCEPT !.set_entities = <<<<kRun, <<"1">>>>>>],
   [NoConfig EXCEPT !.replace_pairs =
      <<<<eRun(<<"2">>), eRun(<<"3">>)>>, <<eRun(<<"1">>), eRun(<<"2">>)>>>>],
   [NoConfig EXCEPT !.remove_substrings = <<<<"-", "x">>>>],
   [NoConfig EXCEPT !.replace_pairs = <<<<kTask, <<"t", "a", " ", "s", "k">>>>>>],
   [NoConfig EXCEPT !.remove_entities = <<kAcq>>,
                    !.filename_pattern = <<"*">> \o ExtJson]}

\* every order in which rglob may yield the files of S
Listings(S) == {q \in Arrangements(S, Cardinality(S)) : Len(q) = Cardinality(S)}

RenameInit ==
  /\ tool = "rename"
  /\ \E present \in {S \in SUBSET RenameUniverse : Cardinality(S) <= MaxFiles} :
       /\ tree = [p \in present |-> DatasetContent(p)]
       /\ dirs = UNION {Ancestors(p) : p \in present}
  /\ config \in RenameConfigs
  /\ backup_enabled \in BOOLEAN
  /\ scan = <<>>
  /\ sources = {}
  /\ overwrite = FALSE
  /\ opts \in {o \in ImportOptions : o.session_filter = None}

\* rename is called by a fresh renamer: lines 54-84, up to the collision check
RenameStart(d) ==
  /\ tool = "rename"
  /\ pc \in {"idle", "done", "raised"}
  /\ runs < MaxRuns
  /\ runs' = runs + 1
  /\ dry_run' = d
  /\ prev' = IF pc = "idle" THEN prev ELSE <<Outcome>>
  /\ startTree' = tree
  /\ startDirs' = dirs
  /\ \E listing \in Listings(DOMAIN tree) :
     \E plan \in {PlanGroups(FindFileGroups(listing, config.filename_pattern, <<>>), config,
                              [planned_moves |-> <<>>, error_files |-> <<>>,
                               raised |-> "None"])} :
     \E failure \in {IF plan.raised # "None" THEN plan.raised
                     ELSE EnsureNoCollisions(tree, dirs, plan.planned_moves)} :
        /\ planned_moves' = plan.planned_moves
        /\ error_files' = plan.error_files
        /\ raised' = failure
        /\ pc' = IF failure # "None" THEN "raised"
                 ELSE IF plan.planned_moves = <<>> THEN "done"
                 ELSE "moving"
  /\ processed_files' = <<>>
  /\ i' = 1
  /\ UNCHANGED <<tool, tree, dirs, config, backup_enabled, importVars, codecVars>>

\* one iteration of the loop of _execute_moves, lines 276-293
RenameMove ==
  /\ tool = "rename"
  /\ pc = "moving"
  /\ LET old_rel == planned_moves[i][1]
         new_rel == planned_moves[i][2]
         stepped == /\ i' = i + 1
                    /\ pc' = IF i = Len(planned_moves) THEN "done" ELSE "moving"
                    /\ raised' = raised
     IN IF old_rel = new_rel \/ dry_run
        THEN stepped /\ UNCHANGED <<tree, dirs, processed_files>>
        ELSE IF old_rel \notin DOMAIN tree
        THEN /\ raised' = "FileNotFoundError"
             /\ pc' = "raised"
             /\ UNCHANGED <<i, tree, dirs, processed_files>>
        ELSE /\ stepped
             /\ tree' = MoveFile(IF backup_enabled THEN BackupFile(tree, old_rel) ELSE tree,
                                 old_rel, new_rel)
             /\ dirs' = dirs \cup Ancestors(new_rel)
                          \cup (IF backup_enabled THEN Ancestors(BackupPath(old_rel)) ELSE {})
             /\ processed_files' = Append(processed_files, new_rel)
  /\ UNCHANGED <<tool, runs, dry_run, startTree, startDirs, prev, config, backup_enabled,
                 planned_moves, error_files, importVars, codecVars>>

\* a failure that undoes the moves made before it
TreeRolledBack(t, old_rel, backup, at) ==
  [p \in DOMAIN startTree \cup {q \in DOMAIN t : IsInBackupArea(q)} |->
     IF p \in DOMAIN startTree THEN startTree[p] ELSE t[p]]

\* where an iteration of _execute_moves may fail for a cause of the
\* filesystem: in the copy2 of _backup_file or in old_path.rename
FailurePoints(backup) == IF backup THEN {"copy2", "rename"} ELSE {"rename"}

\* the tree an iteration leaves that fails at the point at: the backup copy is
\* made when the failure comes after it, the file is not moved
TreeAtFailure(t, old_rel, backup, at) ==
  IF backup /\ at = "rename" THEN BackupFile(t, old_rel) ELSE t

\* the directories the two mkdir calls have made when the iteration fails
DirsAtFailure(d, old_rel, new_rel, backup, at) ==
  d \cup (IF backup THEN Ancestors(BackupPath(old_rel)) ELSE {})
    \cup (IF at = "rename" THEN Ancestors(new_rel) ELSE {})

\* an iteration of the loop of _execute_moves in which copy2 or rename raises
\* OSError: nothing catches it, it leaves _execute_moves and rename
RenameMoveFails ==
  /\ tool = "rename"
  /\ pc = "moving"
  /\ ~dry_run
  /\ planned_moves[i][1] # planned_moves[i][2]
  /\ planned_moves[i][1] \in DOMAIN tree
  /\ \E at \in FailurePoints(backup_enabled) :
       /\ tree' = TreeAtFailure(tree, planned_moves[i][1], backup_enabled, at)
       /\ dirs' = DirsAtFailure(dirs, planned_moves[i][1], planned_moves[i][2],
                                backup_enabled, at)
  /\ raised' = "OSError"
  /\ pc' = "raised"
  /\ UNCHANGED <<tool, runs, dry_run, startTree, startDirs, prev, i, config,
                 backup_enabled, planned_moves, processed_files, error_files,
                 importVars, codecVars>>

(***************************************************************************)
(* The two tools, each run up to MaxRuns times in a row on one dataset.    *)
(***************************************************************************)
\* what every behaviour starts from, whatever is run
Fresh ==
  /\ pc = "idle"
  /\ runs = 0
  /\ dry_run = FALSE
  /\ i = 1
  /\ prev = <<>>
  /\ raised = "None"
  /\ matched = None
  /\ parsed = None
  /\ rebuilt = None
  /\ described = None
  /\ startTree = tree
  /\ startDirs = dirs
  /\ files = <<>> /\ copied = <<>> /\ skipped = <<>> /\ errors = <<>>
  /\ bold_map = EmptyIndex.by_full /\ bold_task_map = EmptyIndex.by_task
  /\ planned_moves = <<>> /\ processed_files = <<>> /\ error_files = <<>>

Init ==
  /\ (ImportInit \/ RenameInit)
  /\ base_name = None
  /\ Fresh

Next ==
  \/ \E d \in BOOLEAN : ImportStart(d)
  \/ ImportFile
  \/ \E d \in BOOLEAN : RenameStart(d)
  \/ RenameMove
  \/ RenameMoveFails

Spec == Init /\ [][Next]_vars

(***************************************************************************)
(* The resolver on its own: _index_bold_files on a scan of the dataset,    *)
(* then _match_to_bold for one auxiliary file.                             *)
(***************************************************************************)
\* the auxiliary files _describe_file accepts
AuxFiles == {f \in SourceUniverse : DescribeFile(f).ok}

MatchInit ==
  /\ tool = "match"
  /\ scan \in ScanOrders
  /\ tree = [p \in Range(scan) |-> DatasetContent(p)]
  /\ dirs = UNION {Ancestors(p) : p \in Range(scan)}
  /\ \E f \in AuxFiles : sources = {f}
  /\ overwrite = FALSE
  /\ opts \in {o \in ImportOptions : o.session_filter = None}
  /\ config = NoConfig
  /\ backup_enabled = FALSE
  /\ base_name = None
  /\ Fresh

\* _index_bold_files(bids_root)
MatchIndex ==
  /\ tool = "match"
  /\ pc = "idle"
  /\ \E index \in {IndexBoldFiles(scan)} :
       /\ bold_map' = index.by_full
       /\ bold_task_map' = index.by_task
  /\ files' = SortPaths(sources)
  /\ pc' = "indexed"
  /\ UNCHANGED <<tool, runs, dry_run, tree, dirs, startTree, startDirs, prev, i, raised,
                 sources, scan, overwrite, opts, copied, skipped, errors, matched,
                 renameVars, codecVars>>

\* _match_to_bold(info, bold_map, bold_task_map) for the described file
MatchResolve ==
  /\ tool = "match"
  /\ pc = "indexed"
  /\ matched' = MatchToBold(DescribeFile(files[1]), bold_map, bold_task_map)
  /\ pc' = "done"
  /\ UNCHANGED <<tool, runs, dry_run, tree, dirs, startTree, startDirs, prev, i, raised,
                 sources, scan, overwrite, opts, files, copied, skipped, errors, bold_map,
                 bold_task_map, renameVars, codecVars>>

MatchNext == MatchIndex \/ MatchResolve

SpecMatch == MatchInit /\ [][MatchNext]_vars

(***************************************************************************)
(* The codec of the renamer on its own: _parse_bids_name on a base name,   *)
(* then _build_bids_name on what it returned, directly or after the        *)
(* set_entities loop of _transform_base_name.                              *)
(***************************************************************************)
\* how many segments a base name under test has at most
MaxSegments == 3
\* how many attributes the renamer is asked to set at most
MaxAssignments == 2

eUnknown(key) == key \o <<"-", "1">>

\* the segments the base names under test are joined from: attributes of
\* known and unknown keys, the empty segment of a doubled separator, tags, a
\* subject with a task, and an attribute without a value
CodecSegments ==
  {eSub01, eTaskR, eRun(<<"1">>), eRun(<<"2">>), eUnknown(<<"z", "z">>), <<>>,
   tBold, <<"b", "-", "d">>, tEvents, Under(<<eSub01, eTaskR>>), kRun \o <<"-">>}

CodecNames ==
  {Join(q, <<"_">>) : q \in UNION {[1..n -> CodecSegments] : n \in 1..MaxSegments}}

\* the attributes --set may name, and the orders it may name them in
CodecAssignments ==
  {<<kAcq, <<"x">>>>, <<kSes, <<"1">>>>, <<<<"y", "y">>, <<"1">>>>,
   <<<<"w", "w">>, <<"1">>>>}

AssignmentOrders == Arrangements(CodecAssignments, MaxAssignments) \ {<<>>}

CodecInit ==
  /\ tool = "codec"
  /\ base_name \in CodecNames
  /\ tree = [p \in {} |-> DatasetContent(p)]
  /\ dirs = {}
  /\ scan = <<>>
  /\ sources = {}
  /\ overwrite = FALSE
  /\ opts \in {o \in ImportOptions : o.session_filter = None}
  /\ config = NoConfig
  /\ backup_enabled = FALSE
  /\ Fresh

\* entities, suffix = self._parse_bids_name(updated)
CodecParse ==
  /\ tool = "codec"
  /\ pc = "idle"
  /\ parsed' = ParseBidsName(base_name)
  /\ pc' = "parsed"
  /\ UNCHANGED <<tool, runs, dry_run, tree, dirs, startTree, startDirs, prev, i, raised,
                 importVars, renameVars, base_name, rebuilt, described>>

\* self._build_bids_name(entities, suffix) on what _parse_bids_name returned
CodecBuild ==
  /\ tool = "codec"
  /\ pc = "parsed"
  /\ parsed.ok
  /\ rebuilt' = BuildBidsName(parsed.value.entities, parsed.value.suffix)
  /\ pc' = "built"
  /\ UNCHANGED <<tool, runs, dry_run, tree, dirs, startTree, startDirs, prev, i, raised,
                 importVars, renameVars, base_name, parsed, described>>

\* the set_entities loop and _build_bids_name on what it leaves
CodecSet ==
  /\ tool = "codec"
  /\ pc = "parsed"
  /\ parsed.ok
  /\ \E assignments \in AssignmentOrders :
       /\ config' = [config EXCEPT !.set_entities = assignments]
       /\ rebuilt' = BuildEntities(SetEntities(parsed.value.entities, assignments),
                                   parsed.value.suffix)
  /\ pc' = "set"
  /\ UNCHANGED <<tool, runs, dry_run, tree, dirs, startTree, startDirs, prev, i, raised,
                 importVars, backup_enabled, planned_moves, processed_files, error_files,
                 base_name, parsed, described>>

\* self._describe_file(path) of the import flow for the file of that base
\* name with the extension .tsv
CodecDescribe ==
  /\ tool = "codec"
  /\ pc = "parsed"
  /\ described' = DescribeFile(<<base_name \o ExtTsv>>)
  /\ pc' = "described"
  /\ UNCHANGED <<tool, runs, dry_run, tree, dirs, startTree, startDirs, prev, i,
                 raised, importVars, renameVars, base_name, parsed, rebuilt>>

\* what --remove-entity and --set-entity ask of _transform_base_name
CodecConfigs ==
  {[NoConfig EXCEPT !.remove_entities = <<kRun>>],
   [NoConfig EXCEPT !.set_entities = <<<<kAcq, <<"x">>>>>>],
   [NoConfig EXCEPT !.set_entities = <<<<kRun, <<"2">>>>>>],
   [NoConfig EXCEPT !.remove_entities = <<kRun>>,
                    !.set_entities = <<<<kRun, <<"1">>>>, <<kAcq, <<"x">>>>>>],
   [NoConfig EXCEPT !.remove_entities = <<<<"z", "z">>, kTask>>,
                    !.set_entities = <<<<<<"y", "y">>, <<"1">>>>, <<kSes, <<"1">>>>>>],
   [NoConfig EXCEPT !.remove_entities = <<<<"y", "y">>>>,
                    !.set_entities = <<<<<<"y", "y">>, <<"1">>>>,
                                       <<<<"w", "w">>, <<"1">>>>>>]}

\* new_base_name = self._transform_base_name(base_name)
CodecTransform ==
  /\ tool = "codec"
  /\ pc = "idle"
  /\ \E cfg \in CodecConfigs :
       /\ config' = cfg
       /\ rebuilt' = TransformBaseName(base_name, cfg)
  /\ pc' = "transformed"
  /\ UNCHANGED <<tool, runs, dry_run, tree, dirs, startTree, startDirs, prev, i, raised,
                 importVars, backup_enabled, planned_moves, processed_files, error_files,
                 base_name, parsed, described>>

CodecNext == CodecParse \/ CodecBuild \/ CodecSet \/ CodecDescribe \/ CodecTransform

SpecCodec == CodecInit /\ [][CodecNext]_vars

(***************************************************************************)
(* Properties of the resolver.                                             *)
(***************************************************************************)
\* the keys _match_to_bold looks an auxiliary file up by (lines 314-319)
RunOf(entities) == NormalizeNumeric(DictGet(entities, kRun))
TaskKey(entities) ==
  <<DictGet(entities, kSub), NormalizeNumeric(DictGet(entities, kSes)),
    DictGet(entities, kTask)>>
FullKey(entities) == Append(TaskKey(entities), RunOf(entities))

\* the candidates taskIndex holds for a task key
CandidatesOf(key) == IF key \in DOMAIN bold_task_map THEN bold_task_map[key] ELSE <<>>
RunLess(candidates) == SelectSeq(candidates, LAMBDA m : m[1] = None)

\* the resolver has answered for the auxiliary file
Resolved == tool = "match" /\ pc = "done"

ExactMatchFor(entities) ==
  (RunOf(entities) # None /\ FullKey(entities) \in DOMAIN bold_map)
    => matched = [ok |-> TRUE, matched |-> bold_map[FullKey(entities)], warned |-> FALSE]

\* C2: when the auxiliary file names a run and its (subject, normalized
\* session, task, normalized run) is a key of exactIndex, the resolver returns
\* the entry exactIndex holds for that key, however many reference entries
\* share the subject, session and task.
C2_ExactMatchPrecedence ==
  Resolved => ExactMatchFor(DescribeFile(files[1]).entities)

ExactAmongSeveral(entities) ==
  /\ RunOf(entities) # None
  /\ FullKey(entities) \in DOMAIN bold_map
  /\ Len(CandidatesOf(TaskKey(entities))) > 1
  /\ matched.ok

\* the exact entry is returned while another entry shares the task key
C2_Witness == Resolved /\ ExactAmongSeveral(DescribeFile(files[1]).entities)

RunLabels(candidates) ==
  [n \in 1..Len(candidates) |->
     IF candidates[n][1] # None THEN candidates[n][1] ELSE NoneLabel]

NoRunResolution(entities, candidates) ==
  (RunOf(entities) = None /\ candidates # <<>>)
    => IF Len(candidates) = 1
       THEN matched = [ok |-> TRUE, matched |-> candidates[1][2], warned |-> FALSE]
       ELSE matched = [ok |-> FALSE, kind |-> "AmbiguousRun",
                       runs |-> RunLabels(candidates)]

\* C3: when the auxiliary file names no run and taskIndex holds candidates
\* for its (subject, session, task), the resolver returns the candidate if
\* there is exactly one, with or without a run label, and otherwise fails with
\* AmbiguousRun listing the run label of every candidate in index order, a
\* placeholder standing for a candidate without a run label.
C3_NoRunResolution ==
  Resolved => NoRunResolution(DescribeFile(files[1]).entities,
                              CandidatesOf(TaskKey(DescribeFile(files[1]).entities)))

\* AmbiguousRun is raised with the placeholder among the labels it lists
C3_Witness ==
  /\ Resolved
  /\ RunOf(DescribeFile(files[1]).entities) = None
  /\ ~matched.ok
  /\ matched.kind = "AmbiguousRun"
  /\ \E n \in 1..Len(matched.runs) : matched.runs[n] = NoneLabel
  /\ \E n \in 1..Len(matched.runs) : matched.runs[n] # NoneLabel

FallbackApplies(entities, candidates) ==
  /\ RunOf(entities) # None
  /\ FullKey(entities) \notin DOMAIN bold_map
  /\ \A n \in 1..Len(candidates) : candidates[n][1] # RunOf(entities)

FallbackOutcome(candidates) ==
  IF Len(RunLess(candidates)) = 1
  THEN matched.ok /\ matched.matched = RunLess(candidates)[1][2]
  ELSE ~matched.ok /\ matched.kind = "NoRunMatch"

RunLessFallback(entities, candidates) ==
  FallbackApplies(entities, candidates) => FallbackOutcome(candidates)

\* C4 as stated: when the auxiliary file names a run, the full key is not in
\* exactIndex and no task-key candidate has that run, the resolver returns the
\* run-less candidate if exactly one exists and fails with NoRunMatch if zero
\* or more than one exist.
C4_RunLessFallback_Stated ==
  Resolved => RunLessFallback(DescribeFile(files[1]).entities,
                              CandidatesOf(TaskKey(DescribeFile(files[1]).entities)))

\* C4, amended: the same, when taskIndex holds at least one candidate for the
\* (subject, session, task) of the auxiliary file.
C4_RunLessFallback ==
  (Resolved /\ CandidatesOf(TaskKey(DescribeFile(files[1]).entities)) # <<>>)
    => RunLessFallback(DescribeFile(files[1]).entities,
                       CandidatesOf(TaskKey(DescribeFile(files[1]).entities)))

\* the run-less candidate is returned although another candidate carries a
\* different run label
C4_Witness ==
  /\ Resolved
  /\ FallbackApplies(DescribeFile(files[1]).entities,
                     CandidatesOf(TaskKey(DescribeFile(files[1]).entities)))
  /\ Len(CandidatesOf(TaskKey(DescribeFile(files[1]).entities))) > 1
  /\ matched.ok
  /\ matched.warned

(***************************************************************************)
(* Properties of rename and import_files.                                  *)
(***************************************************************************)
CollisionErrors == {"Multiple files want to rename to", "Target already exists"}

\* two distinct sources of the batch map to the same destination
SameDestination(moves) ==
  \E a, b \in 1..Len(moves) : moves[a][1] # moves[b][1] /\ moves[a][2] = moves[b][2]

\* a destination is a file of the tree t that is not a source of the batch
OccupiedDestination(t, moves) ==
  \E a \in 1..Len(moves) :
    moves[a][2] \in DOMAIN t /\ \A b \in 1..Len(moves) : moves[b][1] # moves[a][2]

\* the current rename run has neither backed up nor moved nor created anything
NothingRenamed == tree = startTree /\ dirs = startDirs /\ processed_files = <<>>

\* C1: when two distinct sources of the planned batch map to the same
\* destination, or a destination is an existing file that is not a source of
\* the batch, rename fails with a collision error before any backup copy,
\* directory creation or move: the filesystem is unchanged and no file of the
\* batch is moved.
C1_CollisionRejectsBatch ==
  (/\ tool = "rename"
   /\ pc # "idle"
   /\ raised # "ValueError"
   /\ SameDestination(planned_moves) \/ OccupiedDestination(startTree, planned_moves))
    => (pc = "raised" /\ raised \in CollisionErrors /\ NothingRenamed)

\* a batch with two sources for one destination has been rejected
C1_Witness ==
  /\ tool = "rename"
  /\ pc = "raised"
  /\ raised = "Multiple files want to rename to"
  /\ SameDestination(planned_moves)
  /\ ~dry_run

\* the step of import_files for a file that reaches the resolver
NoReferenceStep(source_file, info) ==
  (info.ok /\ (info.kind = tEvents => EventFileHasEnoughLines(source_file, MinEventLines)))
    => IF CandidatesOf(TaskKey(info.entities)) = <<>>
       THEN /\ errors' = Append(errors,
                                <<source_file,
                                  [ok |-> FALSE, kind |-> "NoReferenceFound",
                                   subject |-> TaskKey(info.entities)[1],
                                   session |-> IF TaskKey(info.entities)[2] = None THEN NA
                                               ELSE TaskKey(info.entities)[2],
                                   task |-> TaskKey(info.entities)[3]]>>)
            /\ tree' = tree
            /\ copied' = copied
       ELSE errors' # errors => errors'[Len(errors')][2].kind # "NoReferenceFound"

\* C5: if taskIndex holds no candidate for the (subject, session, task) of an
\* auxiliary file, resolving it fails with NoReferenceFound naming subject,
\* session and task, and nothing is copied for the file; if taskIndex holds a
\* candidate for that key, resolving it never fails with NoReferenceFound.
C5_NoReferenceFound ==
  [][(tool = "import" /\ pc = "loop") => NoReferenceStep(files[i], DescribeFile(files[i]))]_vars

\* a live import has recorded NoReferenceFound for a file and copied nothing
C5_Witness ==
  /\ tool = "import"
  /\ pc = "done"
  /\ ~dry_run
  /\ scan # <<>>
  /\ \E n \in 1..Len(errors) : errors[n][2].kind = "NoReferenceFound"
  /\ copied = <<>>
  /\ tree = startTree

\* C6: with dry_run set neither rename nor import_files creates, deletes,
\* moves, copies or modifies a file, backup copies and companion descriptors
\* included: the files and their contents are those the run started with, and
\* so are the directories.
C6_DryRunChangesNothing ==
  (tool \in {"import", "rename"} /\ dry_run) => (tree = startTree /\ dirs = startDirs)

\* a dry import has reported the copy of a physio file whose companion
\* descriptor lies beside it
C6_Witness ==
  /\ tool = "import"
  /\ dry_run
  /\ pc = "done"
  /\ SrcPhysio \in Range(files)
  /\ SrcPhysioJson \in sources
  /\ \E n \in 1..Len(copied) : EndsWith(NameOf(copied[n]), UPhysioTsv \o ExtGz)

\* the run that has just ended is a live run that followed a dry run of the
\* same tool on the same, unmodified dataset
LiveAfterDry ==
  /\ pc = "done"
  /\ prev # <<>>
  /\ ~dry_run
  /\ prev[1].dry_run
  /\ prev[1].raised = "None"
  /\ prev[1].startTree = startTree

\* C7: a dry run followed by a live run on the same unmodified input yields
\* the same planned (source, destination) pairs and the same classification of
\* every file as acted on, skipped or errored.
C7_DryRunFidelity ==
  LiveAfterDry =>
    IF tool = "import"
    THEN /\ copied = prev[1].copied
         /\ skipped = prev[1].skipped
         /\ errors = prev[1].errors
    ELSE /\ Range(planned_moves) = Range(prev[1].planned_moves)
         /\ Range(error_files) = Range(prev[1].error_files)

\* the targets import_files has assigned to two of the files it has processed
DistinctTargets(first, second) ==
  (first.class = "target" /\ second.class = "target")
    => first.target_path # second.target_path

\* C8: within one import_files run no two distinct source files are assigned
\* the same target path.
C8_UniqueDestinations ==
  (tool = "import" /\ pc \in {"loop", "done"}) =>
    \A m, n \in 1..Len(files) :
      (m < n /\ n < i) =>
        DistinctTargets(Resolve(files[m], bold_map, bold_task_map, MinEventLines),
                        Resolve(files[n], bold_map, bold_task_map, MinEventLines))

\* the step of import_files for a file whose target path holds a file
OverwritePolicy(source_file, r) ==
  (r.class = "target" /\ r.target_path \in DOMAIN tree)
    => IF ~overwrite
       THEN /\ tree' = tree
            /\ skipped' = Append(skipped, <<source_file, "already exists">>)
            /\ copied' = copied
       ELSE ~dry_run => (/\ r.target_path \in DOMAIN tree'
                         /\ tree'[r.target_path] = SourceContent(source_file)
                         /\ copied' = Append(copied, r.target_path))

\* C9: without overwrite, import_files neither deletes nor replaces a file
\* that exists at the target path of the source file it processes, and
\* records the source as skipped (already exists); with overwrite, in live
\* mode, the target ends up as a copy of the source.
C9_OverwritePolicy ==
  [][(tool = "import" /\ pc = "loop")
       => OverwritePolicy(files[i],
                          Resolve(files[i], bold_map, bold_task_map, MinEventLines))]_vars

\* a live import without overwrite has skipped a source whose target was in
\* the dataset, and the file there is the one the dataset held
C9_Witness ==
  /\ tool = "import"
  /\ pc = "done"
  /\ ~dry_run
  /\ ~overwrite
  /\ OldEvents \in DOMAIN startTree
  /\ \E n \in 1..Len(skipped) : skipped[n] = <<SrcRun1, "already exists">>
  /\ tree[OldEvents] = DatasetContent(OldEvents)

\* the groups _find_file_groups makes of the files of the tree t
GroupNames(t) ==
  {Append(ParentOf(q), StripAllSuffixes(NameOf(q))) :
     q \in {f \in DOMAIN t : ~IsInBackupArea(f)}}

\* C10: when the attribute removals asked for include the subject key, the
\* transformation of every file group fails, and the rename run neither
\* renames nor moves nor backs up a file.
C10_ProtectedSubject ==
  (tool = "rename" /\ pc # "idle" /\ kSub \in Range(config.remove_entities))
    => /\ pc = "done"
       /\ raised = "None"
       /\ planned_moves = <<>>
       /\ NothingRenamed
       /\ Range(error_files) = GroupNames(startTree)
       /\ Len(error_files) = Cardinality(GroupNames(startTree))

\* a live run asked to remove the subject key has recorded two groups as
\* failed
C10_Witness ==
  /\ tool = "rename"
  /\ pc = "done"
  /\ ~dry_run
  /\ kSub \in Range(config.remove_entities)
  /\ Len(error_files) = 2

(***************************************************************************)
(* Properties of the codec.                                                *)
(***************************************************************************)
\* _build_bids_name has answered for what _parse_bids_name returned
Built == tool = "codec" /\ pc = "built"

\* the keys a base name spells, in the order it spells them
NameKeys(name) ==
  [n \in 1..(Len(Segments(name, "_")) - 1) |-> KeyOf(Segments(name, "_")[n])]

DistinctKeys(keys) ==
  \A a, b \in 1..Len(keys) : a # b => keys[a] # keys[b]

RoundTrip == rebuilt = Return(NormalizeBase(base_name))

\* C11 as stated: for every base name that parses, names with repeated
\* separators or a repeated key included, build(parse(name)) succeeds and
\* equals normalize(name).
C11_RoundTrip_Stated == Built => RoundTrip

\* C11 for names of pairwise distinct keys and an alphanumeric tag: for every
\* base name that parses, spells no key twice and ends in a tag matching
\* [A-Za-z0-9]+, names with repeated separators included, build(parse(name))
\* succeeds and equals normalize(name).
C11_RoundTrip ==
  (Built /\ DistinctKeys(NameKeys(base_name)) /\ AllowedPattern(parsed.value.suffix))
    => RoundTrip

\* a name with a doubled separator has been parsed and rebuilt into its
\* normal form, which differs from it
C11_Witness ==
  /\ Built
  /\ DistinctKeys(NameKeys(base_name))
  /\ Len(Split(base_name, "_")) > Len(Segments(base_name, "_"))
  /\ rebuilt.ok
  /\ rebuilt.value # base_name

\* keys in the fixed priority order: known keys by CANONICAL_ENTITY_ORDER,
\* unknown keys after all known ones
InPriorityOrder(keys) ==
  \A a, b \in 1..Len(keys) :
    a < b => EntityOrderIndex(keys[a]) <= EntityOrderIndex(keys[b])

IsUnknownKey(key) == EntityOrderIndex(key) > Len(CANONICAL_ENTITY_ORDER)

\* the unknown keys of rebuilt are those of original, in the same order
UnknownInArrivalOrder(original, rebuilt_keys) ==
  SelectSeq(rebuilt_keys, IsUnknownKey) = SelectSeq(original, IsUnknownKey)

\* the attributes of a parsed map are those of the rebuilt name, the tag last
SameAttributes(entities, suffix, name) ==
  /\ Len(Segments(name, "_")) = Len(entities) + 1
  /\ Segments(name, "_")[Len(entities) + 1] = suffix
  /\ \A n \in 1..Len(entities) :
       \E k \in 1..Len(entities) :
         Segments(name, "_")[k] = entities[n][1] \o <<"-">> \o entities[n][2]

\* C12: the name rebuilt from a successfully parsed attribute map lists the
\* attributes of the map in the fixed priority order (known keys by the
\* priority list, unknown keys after them in arrival order) followed by the
\* tag, whatever order the attributes had in the original name.
C12_CanonicalOrderOnBuild ==
  (Built /\ rebuilt.ok)
    => /\ SameAttributes(parsed.value.entities, parsed.value.suffix, rebuilt.value)
       /\ InPriorityOrder(NameKeys(rebuilt.value))
       /\ UnknownInArrivalOrder(NameKeys(base_name), NameKeys(rebuilt.value))

\* the set_entities loop and _build_bids_name have answered for what
\* _parse_bids_name returned
SetDone == tool = "codec" /\ pc = "set"

\* every attribute asked to be set is one the parsed map does not hold
BrandNew(entities, assignments) ==
  \A n \in 1..Len(assignments) : ~DictHas(entities, assignments[n][1])

\* the same attributes set in whatever order give the same result
SameForEveryOrder(entities, suffix, assignments, result) ==
  \A other \in AssignmentOrders :
    Range(other) = Range(assignments)
      => BuildEntities(SetEntities(entities, other), suffix) = result

\* C13: setting one or more brand-new attributes on a parsed map and
\* rebuilding yields a name whose keys are in the fixed priority order, and
\* the same name for every order in which the new attributes are set.
C13_CanonicalInsertion ==
  (SetDone /\ BrandNew(parsed.value.entities, config.set_entities))
    => /\ rebuilt.ok => InPriorityOrder(NameKeys(rebuilt.value))
       /\ SameForEveryOrder(parsed.value.entities, parsed.value.suffix,
                            config.set_entities, rebuilt)

(***************************************************************************)
(* Properties of the plan of rename and of its execution.                  *)
(***************************************************************************)
\* a key-value segment: a key and a value matching [A-Za-z0-9]+ around the
\* first '-'
ValidSegment(segment) ==
  /\ Contains(segment, "-")
  /\ AllowedPattern(KeyOf(segment))
  /\ AllowedPattern(ValueOf(segment))

\* a valid structured name: key-value segments joined by '_', the subject
\* among them, ending in a tag matching [A-Za-z0-9]+
ValidStructuredName(name) ==
  LET parts == Split(name, "_")
  IN /\ AllowedPattern(parts[Len(parts)])
     /\ \A n \in 1..(Len(parts) - 1) : ValidSegment(parts[n])
     /\ \E n \in 1..(Len(parts) - 1) : StartsWith(parts[n], SubDash)

\* C14: every destination base name rename plans, and so every move it
\* executes, is a valid structured name: it holds the subject attribute and
\* consists of key-value segments joined by '_' and ending in a tag, every
\* key, every value and the tag matching [A-Za-z0-9]+.
C14_PlannedNamesValid ==
  tool = "rename" =>
    \A n \in 1..Len(planned_moves) :
      ValidStructuredName(StripAllSuffixes(NameOf(planned_moves[n][2])))

(***************************************************************************)
(* Properties of the result of import_files.                               *)
(***************************************************************************)
\* how many entries of a skipped or errors list are about the source file
EntriesAbout(entries, source_file) ==
  Cardinality({n \in 1..Len(entries) : entries[n][1] = source_file})

\* the file import_files has processed has its entry where the loop body
\* puts it
Classified(source_file, r) ==
  IF r.class = "error"
  THEN EntriesAbout(errors, source_file) = 1 /\ EntriesAbout(skipped, source_file) = 0
  ELSE IF r.class = "skipped"
  THEN EntriesAbout(errors, source_file) = 0 /\ EntriesAbout(skipped, source_file) = 1
  ELSE EntriesAbout(errors, source_file) = 0 /\ EntriesAbout(skipped, source_file) <= 1

\* C15: import_files never raises for a file; every candidate file it has
\* processed has contributed exactly one entry to exactly one of copied,
\* skipped and errors, so that when it returns the three counts sum to the
\* number of candidates collected at the start, files after a failed
\* resolution included.
C15_ResultPartition ==
  (tool = "import" /\ runs > 0)
    => /\ pc \in {"loop", "done"}
       /\ Len(copied) + Len(skipped) + Len(errors) = i - 1
       /\ pc = "done" => i - 1 = Len(files)
       /\ \A k \in 1..(i - 1) :
            Classified(files[k], Resolve(files[k], bold_map, bold_task_map, MinEventLines))

\* import_files has returned after a file whose resolution failed and a file
\* after it that was copied
C15_Witness ==
  /\ tool = "import"
  /\ pc = "done"
  /\ ~dry_run
  /\ Len(files) = 2
  /\ errors # <<>> /\ errors[1][1] = files[1]
  /\ Len(copied) = 1
  /\ copied[1] \in DOMAIN tree

\* an auxiliary file of the source directory whose name _describe_file
\* rejects
Malformed(source_file) ==
  /\ IsCandidate(source_file, opts.include_events, opts.include_physio)
  /\ ~DescribeFile(source_file).ok

\* C16: an auxiliary file found in the source directory whose name is
\* malformed, the subject or task key missing for instance, is recorded in the
\* errors of the import result with a reason.
C16_MalformedRecorded ==
  (tool = "import" /\ pc = "done")
    => \A source_file \in sources :
         Malformed(source_file) => EntriesAbout(errors, source_file) = 1


(***************************************************************************)
(* Properties of a live execution that fails part-way.                     *)
(***************************************************************************)

\* the live execution of a batch has stopped with an error at its move i
ExecutionFailed ==
  /\ tool = "rename"
  /\ pc = "raised"
  /\ raised \in {"OSError", "FileNotFoundError"}

\* the move is in effect: the destination holds what the source held when the
\* invocation started, and the source path is gone
InEffect(move) ==
  /\ move[2] \in DOMAIN tree
  /\ tree[move[2]] = startTree[move[1]]
  /\ move[1] # move[2] => move[1] \notin DOMAIN tree

\* the file of the move is where and what it was when the invocation started
UntouchedAtSource(move) ==
  /\ move[1] \in DOMAIN tree
  /\ tree[move[1]] = startTree[move[1]]
  /\ move[1] # move[2] => move[2] \notin DOMAIN tree

\* C17: when the move at position i of a validated batch fails during live
\* execution, every move before it remains in effect and is reported as
\* processed, and the file of every move after it is untouched at its source
\* path: nothing is rolled back and nothing further is attempted.
C17_NoRollback ==
  ExecutionFailed =>
    /\ \A n \in 1..(i - 1) : InEffect(planned_moves[n])
    /\ \A n \in (i + 1)..Len(planned_moves) : UntouchedAtSource(planned_moves[n])
    /\ Len(processed_files) = Cardinality({n \in 1..(i - 1) :
                                  planned_moves[n][1] # planned_moves[n][2]})

\* the second move of a batch has failed after the first one was made
C17_Witness ==
  /\ ExecutionFailed
  /\ i = 2
  /\ planned_moves[1][1] # planned_moves[1][2]
  /\ planned_moves[1][2] \in DOMAIN tree


(***************************************************************************)
(* Properties of the backup copies of a live execution.                    *)
(***************************************************************************)

\* the positions of the batch whose file the execution has already moved
AlreadyMoved ==
  {n \in 1..Len(planned_moves) :
     n < i /\ planned_moves[n][1] # planned_moves[n][2]}

\* the file has a backup copy with its original content at the mirrored path
BackedUp(old_rel) ==
  /\ BackupPath(old_rel) \in DOMAIN tree
  /\ tree[BackupPath(old_rel)] = startTree[old_rel]

\* C18: in a live execution with backup enabled, at every point of the
\* execution every file already moved has a copy with its original content at
\* sourcedata/backup/<its relative path>.
C18_BackupPrecedesMove ==
  (/\ tool = "rename"
   /\ pc \in {"moving", "done", "raised"}
   /\ ~dry_run
   /\ backup_enabled)
    => \A n \in AlreadyMoved : BackedUp(planned_moves[n][1])

\* a live execution with backup enabled has moved a file and goes on
C18_Witness ==
  /\ tool = "rename"
  /\ pc = "moving"
  /\ ~dry_run
  /\ backup_enabled
  /\ AlreadyMoved # {}
  /\ planned_moves[1][1] \notin DOMAIN tree


(***************************************************************************)
(* Properties of the grouping of the files of a plan.                      *)
(***************************************************************************)

\* the files of the set that share the parent directory and the base name of p
SiblingsOf(among, p) ==
  {q \in among : /\ ParentOf(q) = ParentOf(p)
                 /\ StripAllSuffixes(NameOf(q)) = StripAllSuffixes(NameOf(p))}

\* the files the plan holds a move of
PlannedSources == {planned_moves[n][1] : n \in 1..Len(planned_moves)}

\* the base name the move gives its file: the name of its destination without
\* the extension chain of its source
NewBaseOf(move) ==
  SubSeq(NameOf(move[2]), 1,
         Len(NameOf(move[2])) - Len(CollectSuffix(NameOf(move[1]))))

\* the destination lies in the directory of the source and keeps the
\* extension chain of the source
KeepsPlaceAndExtensions(move) ==
  /\ ParentOf(move[2]) = ParentOf(move[1])
  /\ Len(NameOf(move[2])) >= Len(CollectSuffix(NameOf(move[1])))
  /\ NameOf(move[2]) = NewBaseOf(move) \o CollectSuffix(NameOf(move[1]))

\* the plan holds every file of each group of the set or none of it, and the
\* moves of one group share their new base name
GroupedRename(among) ==
  /\ \A p \in among :
       p \in PlannedSources => SiblingsOf(among, p) \subseteq PlannedSources
  /\ \A n \in 1..Len(planned_moves) : KeepsPlaceAndExtensions(planned_moves[n])
  /\ \A n, m \in 1..Len(planned_moves) :
       planned_moves[m][1] \in SiblingsOf(among, planned_moves[n][1])
         => NewBaseOf(planned_moves[m]) = NewBaseOf(planned_moves[n])

\* the files of the dataset the scan of _find_file_groups selects
SelectedFiles ==
  {p \in DOMAIN startTree :
     ~IsInBackupArea(p) /\ RenamerPassesFilters(p, config.filename_pattern)}

\* C19 as stated: for every group of files of the dataset that share a parent
\* directory and a base name, the plan of rename holds all members or none,
\* and each planned destination is the same directory, one new base name for
\* the group, and the extension chain of the member.
C19_SiblingGrouping_Stated ==
  (tool = "rename" /\ pc # "idle") => GroupedRename(DOMAIN startTree)

\* C19: for every group of the files the scan selects (outside the backup
\* area, matching the --file pattern) that share a parent directory and a
\* base name, the plan of rename holds all members or none, and each planned
\* destination is the same directory, one new base name for the group, and
\* the extension chain of the member.
C19_SiblingGrouping ==
  (tool = "rename" /\ pc # "idle") => GroupedRename(SelectedFiles)

\* a data file and its descriptor are planned together
C19_Witness ==
  /\ tool = "rename"
  /\ pc # "idle"
  /\ Len(planned_moves) = 2
  /\ planned_moves[2][1] # planned_moves[1][1]
  /\ planned_moves[2][1] \in SiblingsOf(SelectedFiles, planned_moves[1][1])


(***************************************************************************)
(* Properties of the pre-validation of a batch.                            *)
(***************************************************************************)

\* a destination of the batch exists already and is the path of a source of
\* the batch other than its own
ChainedDestination(t, moves) ==
  \E a, b \in 1..Len(moves) :
    /\ a # b
    /\ moves[a][1] # moves[a][2]
    /\ moves[a][2] = moves[b][1]
    /\ moves[a][2] \in DOMAIN t

\* C20: a planned batch whose destinations are pairwise distinct, and whose
\* destinations that exist already are all paths of sources of the batch,
\* passes pre-validation: rename raises no collision error for it.
C20_BatchSourcesAreNoCollisions ==
  (/\ tool = "rename"
   /\ pc # "idle"
   /\ raised # "ValueError"
   /\ ~SameDestination(planned_moves)
   /\ ~OccupiedDestination(startTree, planned_moves)
   /\ \A n \in 1..Len(planned_moves) : planned_moves[n][2] \notin startDirs)
    => raised \notin CollisionErrors

\* the same for the batches none of whose destinations is a source of the
\* batch: the pre-validation raises for exactly the chained batches
C20_UnchainedBatchPasses ==
  (/\ tool = "rename"
   /\ pc # "idle"
   /\ raised # "ValueError"
   /\ ~SameDestination(planned_moves)
   /\ ~OccupiedDestination(startTree, planned_moves)
   /\ \A n \in 1..Len(planned_moves) : planned_moves[n][2] \notin startDirs)
    => (raised \in CollisionErrors <=> ChainedDestination(startTree, planned_moves))


(***************************************************************************)
(* Properties of the normalization of the keys of the resolver.            *)
(***************************************************************************)

\* the other spelling of a string of digits: without its leading zeros when
\* it has some, with one leading zero when it has none
Repad(value) ==
  IF Len(value) > 1 /\ value[1] = "0" THEN StrInt(value) ELSE <<"0">> \o value

\* the segment with the value of the key respelled, when the segment carries
\* one of the keys and its value is a string of digits
RepadSegment(segment, keys) ==
  IF Contains(segment, "-") /\ KeyOf(segment) \in keys /\ IsDigit(ValueOf(segment))
  THEN KeyOf(segment) \o <<"-">> \o Repad(ValueOf(segment))
  ELSE segment

\* the file whose name differs from that of path in the spelling of the
\* digit-only values of the keys only
Respelled(path, keys) ==
  LET name == NameOf(path)
      segments == Split(StripExtensions(name), "_")
  IN Append(ParentOf(path),
            Join([n \in 1..Len(segments) |-> RepadSegment(segments[n], keys)], <<"_">>)
              \o CollectSuffix(name))

\* the resolver gives the file the answer it has given files[1]
SameOutcome(path) ==
  matched = MatchToBold(DescribeFile(path), bold_map, bold_task_map)

\* C21: an auxiliary file and the file that differs from it only in the
\* zero-padding of its digit-only session and run values get the same
\* resolution outcome, whichever spelling the reference scans use.
C21_PaddingInvariance ==
  Resolved => SameOutcome(Respelled(files[1], {kSes, kRun}))

\* a file naming run-1 has been resolved to a reference scan named run-01
C21_Witness ==
  /\ Resolved
  /\ files[1] = SrcRun1
  /\ Bold01 \in Range(scan)
  /\ Bold1 \notin Range(scan)
  /\ matched.ok
  /\ Respelled(files[1], {kSes, kRun}) = SrcRun01


\* C22: the subject is normalized like the session and the run: when an
\* auxiliary file resolves to a reference scan, the file that differs from it
\* only in the zero-padding of its digit-only subject label resolves to the
\* same reference scan.
C22_SubjectNormalized ==
  (Resolved /\ matched.ok) => SameOutcome(Respelled(files[1], {kSub}))


(***************************************************************************)
(* Properties of the two parsers of file names.                            *)
(***************************************************************************)

\* the segment lacks the key delimiter or carries an empty key or value
BadSegment(part) ==
  ~Contains(part, "-") \/ KeyOf(part) = <<>> \/ ValueOf(part) = <<>>

\* the conditions under which parsing the name fails with MalformedName at a
\* call site that requires the keys: no segment at all, a bad segment before
\* the tag, or a required key that no segment before the tag carries
MalformedName(name, required) ==
  LET parts == Segments(name, "_")
  IN \/ parts = <<>>
     \/ \E n \in 1..(Len(parts) - 1) : BadSegment(parts[n])
     \/ \E key \in required :
          \A n \in 1..(Len(parts) - 1) :
            ~Contains(parts[n], "-") \/ KeyOf(parts[n]) # key

\* both flows have parsed the name
BothParsed == tool = "codec" /\ pc = "described"

\* the import flow is asked to parse the name: its tag is one of its two
TagOfImport(name) ==
  Segments(name, "_") # <<>>
    /\ Segments(name, "_")[Len(Segments(name, "_"))] \in {tEvents, tPhysio}

\* the rename flow fails on exactly the malformed names
RenameFlowFailures == parsed.ok <=> ~MalformedName(base_name, {kSub})

\* the import flow fails on exactly the malformed names among those it is
\* asked to parse
ImportFlowFailures ==
  TagOfImport(base_name) => (described.ok <=> ~MalformedName(base_name, {kSub, kTask}))

\* a name both flows accept has one attribute map
SameAttributeMap ==
  (parsed.ok /\ described.ok) => parsed.value.entities = described.entities

\* C23: in the rename flow and in the import flow alike, parsing a name fails
\* when a segment before the tag lacks the key delimiter or carries an empty
\* key or value and when a required key is missing (subject; for import also
\* task), and succeeds otherwise; a name both flows accept gets the same
\* attribute map from both.
C23_ParseFailuresEverywhere ==
  BothParsed => (RenameFlowFailures /\ ImportFlowFailures /\ SameAttributeMap)

\* the same for the rename flow alone, and for the attribute maps
C23_RenameFlowOnly == BothParsed => (RenameFlowFailures /\ SameAttributeMap)


(***************************************************************************)
(* Properties of the two indexes of the reference scans.                   *)
(***************************************************************************)

\* the directory scan has been indexed
Indexed == tool = "match" /\ pc \in {"indexed", "done"}

\* what the scan of one reference file alone puts in the two indexes
Alone(relative) == IndexOne(EmptyIndex, relative)

\* the positions of the scan whose reference file has the full key
ScannedWith(key) == {n \in 1..Len(scan) : key \in DOMAIN Alone(scan[n]).by_full}

\* the entries of the reference files of the task key, in the order of the scan
RECURSIVE TaskEntries(_, _)
TaskEntries(scans, key) ==
  IF scans = <<>> THEN <<>>
  ELSE (IF key \in DOMAIN Alone(scans[1]).by_task THEN Alone(scans[1]).by_task[key]
        ELSE <<>>) \o TaskEntries(Tail(scans), key)

\* C24: exactIndex holds, for every full key of a scanned reference file, the
\* entry of the last-scanned file of that key and nothing else; taskIndex
\* holds, for every task key, one entry per scanned reference file of that
\* key, duplicates included, in the order of the scan.
C24_IndexOnDuplicateKeys ==
  Indexed =>
    /\ \A n \in 1..Len(scan) : DOMAIN Alone(scan[n]).by_full \subseteq DOMAIN bold_map
    /\ \A key \in DOMAIN bold_map :
         /\ ScannedWith(key) # {}
         /\ \E last \in ScannedWith(key) :
              /\ \A n \in ScannedWith(key) : n <= last
              /\ bold_map[key] = Alone(scan[last]).by_full[key]
    /\ \A n \in 1..Len(scan) : DOMAIN Alone(scan[n]).by_task \subseteq DOMAIN bold_task_map
    /\ \A key \in DOMAIN bold_task_map :
         /\ bold_task_map[key] # <<>>
         /\ bold_task_map[key] = TaskEntries(scan, key)

\* two reference files of one full key have been indexed: exactIndex holds
\* the second, taskIndex both
C24_Witness ==
  /\ Indexed
  /\ scan = <<Bold1, Bold01>>
  /\ Cardinality(DOMAIN bold_map) = 1
  /\ \A key \in DOMAIN bold_map : bold_map[key] = Alone(Bold01).by_full[key]
  /\ \A key \in DOMAIN bold_task_map : Len(bold_task_map[key]) = 2


(***************************************************************************)
(* Properties of a batch that has passed the pre-validation.               *)
(***************************************************************************)

\* the batch of the invocation has passed _ensure_no_collisions
PassedPreValidation == tool = "rename" /\ pc \in {"moving", "done"}

PlannedDestinations == {planned_moves[n][2] : n \in 1..Len(planned_moves)}

\* the tree after the live execution of the moves in the order given
RECURSIVE ExecuteAll(_, _, _)
ExecuteAll(t, moves, backup) ==
  IF moves = <<>> THEN t
  ELSE ExecuteAll(MoveFile(IF backup THEN BackupFile(t, moves[1][1]) ELSE t,
                           moves[1][1], moves[1][2]),
                  Tail(moves), backup)

\* every order the moves of the batch may be executed in
ExecutionOrders ==
  {[n \in 1..Len(order) |-> planned_moves[order[n]]] :
     order \in Listings(1..Len(planned_moves))}

\* C25: in a batch that has passed pre-validation the destinations are
\* pairwise distinct, none of them exists on disk, and none of them is a
\* source of the batch; no move still to be executed finds a file at its
\* destination; and after a complete live execution the tree is the one that
\* executing the moves in any order leaves.
C25_DisjointAndOrderFree ==
  PassedPreValidation =>
    /\ \A a, b \in 1..Len(planned_moves) :
         a # b => planned_moves[a][2] # planned_moves[b][2]
    /\ PlannedDestinations \cap (DOMAIN startTree \cup startDirs) = {}
    /\ PlannedDestinations \cap PlannedSources = {}
    /\ (pc = "moving" /\ ~dry_run) =>
         \A n \in i..Len(planned_moves) : planned_moves[n][2] \notin DOMAIN tree
    /\ (pc = "done" /\ ~dry_run) =>
         \A moves \in ExecutionOrders :
           tree = ExecuteAll(startTree, moves, backup_enabled)

\* a live execution of two moves is complete
C25_Witness ==
  /\ PassedPreValidation
  /\ pc = "done"
  /\ ~dry_run
  /\ Len(planned_moves) = 2
  /\ Len(processed_files) = 2


\* the runs of the entries taskIndex holds for the task key
RunsOf(key) == {CandidatesOf(key)[n][1] : n \in 1..Len(CandidatesOf(key))}

\* the auxiliary file names a run and its full key is not in exactIndex
RunNotIndexed(entities) ==
  RunOf(entities) # None /\ FullKey(entities) \notin DOMAIN bold_map

\* C26: a full key is in exactIndex exactly when the taskIndex list of its
\* task key has an entry of its run (the absent run included); so, when the
\* auxiliary file names a run and its full key is not in exactIndex, no
\* candidate of its task key has that run.
C26_IndexConsistency ==
  /\ Indexed =>
       /\ \A key \in DOMAIN bold_map : key[4] \in RunsOf(SubSeq(key, 1, 3))
       /\ \A key \in DOMAIN bold_task_map :
            \A run \in RunsOf(key) : Append(key, run) \in DOMAIN bold_map
  /\ Resolved =>
       (RunNotIndexed(DescribeFile(files[1]).entities)
          => RunOf(DescribeFile(files[1]).entities)
               \notin RunsOf(TaskKey(DescribeFile(files[1]).entities)))

\* the resolver has answered for a file naming a run that exactIndex does
\* not hold, with candidates of other runs under its task key
C26_Witness ==
  /\ Resolved
  /\ RunNotIndexed(DescribeFile(files[1]).entities)
  /\ Len(CandidatesOf(TaskKey(DescribeFile(files[1]).entities))) = 2
  /\ Cardinality(DOMAIN bold_map) = 2


(***************************************************************************)
(* Properties of the two kinds of failure while rename plans.              *)
(***************************************************************************)

\* the groups of the files the scan selects, each as parent / base name
SelectedGroups ==
  {Append(ParentOf(q), StripAllSuffixes(NameOf(q))) : q \in SelectedFiles}

\* the transformation of the base name of the group raises
FailsTransform(group) == ~TransformBaseName(NameOf(group), config).ok

\* the base name of the group is transformed into another name
Renamed(group) ==
  /\ TransformBaseName(NameOf(group), config).ok
  /\ TransformBaseName(NameOf(group), config).value # NameOf(group)

\* the new name of the group fails the final re-validation
FailsRevalidation(group) ==
  /\ Renamed(group)
  /\ ~ValidateBidsName(TransformBaseName(NameOf(group), config).value).ok

\* the files of the groups that get a new, valid name
FilesToRename ==
  {q \in SelectedFiles :
     /\ Renamed(Append(ParentOf(q), StripAllSuffixes(NameOf(q))))
     /\ ~FailsRevalidation(Append(ParentOf(q), StripAllSuffixes(NameOf(q))))}

\* C27: when the new name of some group fails the final re-validation, rename
\* raises before the collision check and the execution, and no file of any
\* group is moved or backed up; otherwise a group whose transformation fails
\* is recorded in error_files, and the files of the remaining groups that get
\* a new name are all planned and, in a complete live execution, all moved.
C27_RevalidationIsBatchFatal ==
  (tool = "rename" /\ pc # "idle") =>
    IF \E group \in SelectedGroups : FailsRevalidation(group)
    THEN pc = "raised" /\ raised = "ValueError" /\ NothingRenamed
    ELSE /\ raised # "ValueError"
         /\ Range(error_files) = {group \in SelectedGroups : FailsTransform(group)}
         /\ PlannedSources = FilesToRename
         /\ (pc = "done" /\ ~dry_run) => Len(processed_files) = Len(planned_moves)

\* a live rename has raised on the new name of one group while another group
\* has a new, valid name
C27_Witness ==
  /\ tool = "rename"
  /\ pc = "raised"
  /\ raised = "ValueError"
  /\ ~dry_run
  /\ FilesToRename # {}
  /\ tree = startTree


(***************************************************************************)
(* Properties of a repeated transformation.                                *)
(***************************************************************************)

\* the string is made of letters and digits
Alphanumeric(key) == AllowedPattern(key)

\* the configuration asks for attribute removals and assignments only, of
\* alphanumeric keys
OnlyAttributeMutations(cfg) ==
  /\ cfg.remove_substrings = <<>>
  /\ cfg.replace_pairs = <<>>
  /\ \A n \in 1..Len(cfg.remove_entities) : Alphanumeric(cfg.remove_entities[n])
  /\ \A n \in 1..Len(cfg.set_entities) : Alphanumeric(cfg.set_entities[n][1])

\* _transform_base_name has answered for the base name
Transformed == tool = "codec" /\ pc = "transformed"

\* this invocation of rename follows a live one that ended without an error
AfterLiveRun ==
  /\ tool = "rename"
  /\ pc # "idle"
  /\ prev # <<>>
  /\ ~prev[1].dry_run
  /\ prev[1].raised = "None"

\* no key is both removed and assigned
DisjointMutations(cfg) ==
  \A n \in 1..Len(cfg.set_entities) :
    cfg.set_entities[n][1] \notin Range(cfg.remove_entities)

\* C28 as stated: under attribute removals and assignments of alphanumeric
\* keys only, the transformation of a name it has accepted gives that name
\* again; and a rename that follows a live rename that ended without an error
\* plans no move.
C28_IdempotentTransform_Stated ==
  /\ (Transformed /\ OnlyAttributeMutations(config) /\ rebuilt.ok)
       => TransformBaseName(rebuilt.value, config) = rebuilt
  /\ (AfterLiveRun /\ OnlyAttributeMutations(config)) => planned_moves = <<>>

\* C28: the same, when no key is both removed and assigned.
C28_IdempotentTransform ==
  /\ (Transformed /\ OnlyAttributeMutations(config) /\ DisjointMutations(config)
        /\ rebuilt.ok)
       => TransformBaseName(rebuilt.value, config) = rebuilt
  /\ (AfterLiveRun /\ OnlyAttributeMutations(config) /\ DisjointMutations(config))
       => planned_moves = <<>>

\* a name has been transformed into another name
C28_Witness ==
  /\ Transformed
  /\ OnlyAttributeMutations(config)
  /\ rebuilt.ok
  /\ rebuilt.value # base_name
  /\ config.remove_entities # <<>>
  /\ config.set_entities # <<>>
  /\ DisjointMutations(config)

\* a rename follows a live rename that has moved a file
C28_SecondRun ==
  /\ AfterLiveRun
  /\ OnlyAttributeMutations(config)
  /\ DisjointMutations(config)
  /\ prev[1].processed_files # <<>>


(***************************************************************************)
(* Properties of the order of the directory scan.                          *)
(***************************************************************************)

\* no two reference files of the scan have the same full key
UniqueFullKeys(scans) ==
  \A a, b \in 1..Len(scans) :
    a # b => DOMAIN Alone(scans[a]).by_full \cap DOMAIN Alone(scans[b]).by_full = {}

\* the entry a resolution returns, or the kind of its error
OutcomeOf(result) ==
  IF result.ok THEN <<"entry", result.matched>> ELSE <<"error", result.kind>>

\* what _match_to_bold answers for files[1] when the scan comes in the order
\* other
ResolvedUnder(other) ==
  MatchToBold(DescribeFile(files[1]), IndexBoldFiles(other).by_full,
              IndexBoldFiles(other).by_task)

\* C29: when no two reference scans have the same (subject, session, task,
\* run) key, the auxiliary file gets the same entry, or an error of the same
\* kind, in whichever order the directory scan yields the reference scans.
C29_ScanOrderIndependence ==
  (Resolved /\ UniqueFullKeys(scan)) =>
    \A other \in Listings(Range(scan)) : OutcomeOf(ResolvedUnder(other)) = OutcomeOf(matched)

\* a file has been resolved to an entry over a scan of several reference
\* files of distinct keys, of which another order gives another index
C29_Witness ==
  /\ Resolved
  /\ Len(scan) > 1
  /\ UniqueFullKeys(scan)
  /\ matched.ok
  /\ \E other \in Listings(Range(scan)) : IndexBoldFiles(other).by_task # bold_task_map

\* an error has been raised over such a scan
C29_ErrorCase ==
  /\ Resolved
  /\ Len(scan) > 1
  /\ UniqueFullKeys(scan)
  /\ ~matched.ok
  /\ \E other \in Listings(Range(scan)) : ResolvedUnder(other) # matched


(***************************************************************************)
(* Properties of the backup area over a sequence of rename runs.           *)
(***************************************************************************)

\* the relative path lies under sourcedata/backup
UnderBackup(path) ==
  /\ Len(path) > Len(BackupBaseDirname)
  /\ SubSeq(path, 1, Len(BackupBaseDirname)) = BackupBaseDirname

\* the backup copies the dataset holds
BackupCopies(t) == {p \in DOMAIN t : UnderBackup(p)}

\* the transformation asked for would give the file another name
WouldBeRenamed(path) ==
  LET new_base_name == TransformBaseName(StripAllSuffixes(NameOf(path)), config)
  IN new_base_name.ok /\ new_base_name.value # StripAllSuffixes(NameOf(path))

\* C30: in every sequence of rename runs, no planned move has its source
\* under sourcedata/backup, no backup copy is itself backed up, and no step of
\* a run takes a backup copy away from its path.
C30_BackupNeverSource ==
  /\ [](tool = "rename" =>
          /\ \A n \in 1..Len(planned_moves) : ~UnderBackup(planned_moves[n][1])
          /\ \A p \in BackupCopies(tree) :
               ~UnderBackup(SubSeq(p, Len(BackupBaseDirname) + 1, Len(p))))
  /\ [][tool = "rename" => BackupCopies(tree) \subseteq BackupCopies(tree')]_vars

\* a run has planned moves over a dataset that holds a backup copy of an
\* earlier run, which the transformation would have renamed too
C30_Witness ==
  /\ tool = "rename"
  /\ runs > 1
  /\ pc \in {"moving", "done"}
  /\ ~dry_run
  /\ planned_moves # <<>>
  /\ \E p \in BackupCopies(startTree) : WouldBeRenamed(p)

====
